---------------------------- MODULE Spec2Model ----------------------------
(***************************************************************************)
(* CredVerse: the on-chain credential registries and the server handlers   *)
(* that read and write them.                                               *)
(*                                                                         *)
(*   Spec              GET /api/verify/:credentialId against               *)
(*                     CredVerseRegistry (server/routes/verification.js),  *)
(*                     registry transactions interleaved between the       *)
(*                     handler's awaits.                                   *)
(*   SpecRegistry      CredentialRegistry.sol on its own.                  *)
(*   SpecDocument      POST /api/verify/credential against                 *)
(*                     CredVerseRegistry.                                  *)
(*   SpecPresentation  POST /api/verify/presentation.                      *)
(*   SpecIssue         POST /api/credentials/issue, contractService and    *)
(*                     CredentialRegistry.                                 *)
(***************************************************************************)
EXTENDS Integers, Sequences, FiniteSets, TLC

(***************************************************************************)
(* Bounds and input sets.                                                  *)
(***************************************************************************)
\* block.timestamp runs over 0..MaxTime
MaxTime == 2
\* most credentials embedded in one presentation
MaxEmbedded == 2
\* most entries in one batch
MaxBatch == 3
\* longest stored file, in bytes
MaxFileLen == 3

ZeroAddress == "0x0"
Admin == "admin"
\* accounts that send transactions
Addresses == {"admin", "inst"}
\* accounts that try to register as an institution
InstitutionAccounts == {"inst"}
Recipients == {"student"}
\* credential ids used in requests; IssuableIds are the ones ever issued
CredentialIds == {"c1", "c2"}
IssuableIds == {"c1"}
IpfsHashes == {"QmVC"}
CredentialTypes == {"Diploma"}
Reasons == {"data entry error"}
ExpiryInputs == {0, 1}

\* req.query.includeMetadata as Express parses it: absent, or a string
QueryValues == {"<absent>", "true", "false", ""}

None == <<>>
Some(x) == <<x>>

VARIABLES
    now,                \* block.timestamp
    cvInstitutions,     \* CredVerseRegistry.institutions
    cvCredentials,      \* CredVerseRegistry.credentials
    cvCredentialExists, \* CredVerseRegistry.credentialExists
    cvIssuerRole,       \* holders of ISSUER_ROLE in CredVerseRegistry
    cvPaused,           \* PausableUpgradeable state of CredVerseRegistry
    cvEverRevoked,      \* history: ids for which revokeCredential succeeded
    REGISTRY_ADDRESS,   \* process.env.CREDVERSE_REGISTRY_ADDRESS is set
    vpc,                \* position of the GET /:credentialId handler
    vreq,               \* its request: credentialId, includeMetadata
    verificationResult, \* its verificationResult object
    blockchainResult,   \* what registry.verifyCredential returned
    credential,         \* what registry.getCredential returned
    vresponse,          \* the HTTP response it sent
    vhist,              \* history of the request, for stating properties
    crInstitutions,     \* CredentialRegistry.institutions
    crCredentials,      \* CredentialRegistry.credentials
    crCredentialExists, \* CredentialRegistry.credentialExists
    crIssuerCredentials,  \* CredentialRegistry.issuerCredentials
    crSubjectCredentials, \* CredentialRegistry.subjectCredentials
    crIssuerRole,       \* holders of ISSUER_ROLE in CredentialRegistry
    crPaused,           \* Pausable state of CredentialRegistry
    totalCredentials,   \* CredentialRegistry.totalCredentials
    totalInstitutions,  \* CredentialRegistry.totalInstitutions
    totalRevoked,       \* CredentialRegistry.totalRevoked
    dpc,                \* POST /credential: where the handler is
    dreq,               \* req.body.verifiableCredential, if any
    veramoResult,       \* what veramoService.verifyCredential returned
    blockchainVerification, \* null, or the cross-check's outcome
    dresponse,          \* the HTTP response, once sent
    dhist,              \* history of the request, for stating properties
    ppc,                \* POST /presentation: where the handler is
    preq,               \* req.body.verifiablePresentation, if any
    pVeramoResult,      \* what veramoService.verifyPresentation returned
    credentialVerifications, \* one entry per embedded credential verified
    presponse,          \* the HTTP response, once sent
    phist,              \* history of the request, for stating properties
    contractServiceState, \* contractService after init(): how far it got
    usedUuids,          \* the uuids uuidv4() has handed out
    didStore,           \* aliases of the DIDs the agent has created
    ipfsPinned,         \* cids added and pinned through ipfsService
    txSent,             \* transactions the service's wallet has had mined
    ipc,                \* POST /issue: where the handler is
    ireq,               \* req.body
    credentialId,       \* the handler's credentialId
    studentDID,         \* the handler's studentDID.did
    ipfsResult,         \* the handler's ipfsResult.cid
    verifiableCredential, \* the handler's verifiableCredential
    vcIpfsResult,       \* the handler's vcIpfsResult.cid
    iresponse,          \* the HTTP response, once sent
    ihist,              \* history of the request, for stating properties
    bpc,                \* POST /batch-issue: where the handler is
    breq,               \* req.body.students
    bresults,           \* the handler's results array
    berrors,            \* the handler's errors array
    bresponse,          \* the HTTP response, once sent
    client,             \* IPFSService: whether this.client is set
    ipfsBlocks,         \* the byte strings the content store holds
    gpc,                \* getFile: where the call is
    gcid,               \* getFile: the cid asked for
    maxSize,            \* getFile: options.maxSize || 50MB
    stream,             \* getFile: the bytes client.cat has yet to deliver, if
                        \* the store held the cid when the call was made
    chunks,             \* getFile: the chunks pushed so far
    totalSize,          \* getFile: the running total of chunk lengths
    gresult,            \* getFile: the buffer returned or the error thrown
    fileExistsResult,   \* fileExists: "pending" while it awaits getFile, then
                        \* what it returned; "none" when getFile has another caller
    deployedRegistry    \* the contract deployed at CREDVERSE_REGISTRY_ADDRESS

cvVars == <<cvInstitutions, cvCredentials, cvCredentialExists,
            cvIssuerRole, cvPaused, cvEverRevoked>>
chainVars == <<now, cvVars>>
verifyVars == <<vpc, vreq, verificationResult, blockchainResult, credential,
                vresponse, vhist>>
crVars == <<crInstitutions, crCredentials, crCredentialExists,
            crIssuerCredentials, crSubjectCredentials, crIssuerRole, crPaused,
            totalCredentials, totalInstitutions, totalRevoked>>
docVars == <<dpc, dreq, veramoResult, blockchainVerification, dresponse, dhist>>
presVars == <<ppc, preq, pVeramoResult, credentialVerifications, presponse, phist>>
issueVars == <<contractServiceState, usedUuids, didStore, ipfsPinned, txSent,
               ipc, ireq, credentialId, studentDID, ipfsResult,
               verifiableCredential, vcIpfsResult, iresponse, ihist>>
batchVars == <<bpc, breq, bresults, berrors, bresponse>>
fileVars ==
    <<client, ipfsBlocks, gpc, gcid, maxSize, stream, chunks, totalSize, gresult,
      fileExistsResult>>
serverVars == <<verifyVars, docVars, presVars, issueVars, batchVars, fileVars>>
configVars == <<REGISTRY_ADDRESS, deployedRegistry>>
vars == <<chainVars, configVars, serverVars, crVars>>

(***************************************************************************)
(* CredVerseRegistry.sol                                                   *)
(***************************************************************************)
\* a storage slot never written reads as the zero struct
ZeroInstitution ==
    [name |-> "", did |-> "", isVerified |-> FALSE, isActive |-> FALSE,
     registeredAt |-> 0]

ZeroCredential ==
    [credentialId |-> "", issuer |-> ZeroAddress, recipient |-> ZeroAddress,
     ipfsHash |-> "", credentialType |-> "", issuedAt |-> 0, expiresAt |-> 0,
     isRevoked |-> FALSE, revokedReason |-> ""]

CvInit ==
    /\ now = 0
    /\ cvInstitutions = [a \in Addresses |-> ZeroInstitution]
    /\ cvCredentials = [c \in CredentialIds |-> ZeroCredential]
    /\ cvCredentialExists = [c \in CredentialIds |-> FALSE]
    /\ cvIssuerRole = {}
    /\ cvPaused = FALSE
    /\ cvEverRevoked = {}

\* a block is mined later: block.timestamp grows
Tick ==
    /\ now < MaxTime
    /\ now' = now + 1

CredVerse_registerInstitution(sender, name, did) ==
    /\ name # ""
    /\ did # ""
    /\ cvInstitutions[sender].name = ""
    /\ cvInstitutions' = [cvInstitutions EXCEPT ![sender] =
           [name |-> name, did |-> did, isVerified |-> FALSE,
            isActive |-> TRUE, registeredAt |-> now]]
    /\ UNCHANGED <<now, cvCredentials, cvCredentialExists, cvIssuerRole,
                   cvPaused, cvEverRevoked>>

CredVerse_verifyInstitution(sender, institution, verified) ==
    /\ sender = Admin
    /\ cvInstitutions[institution].name # ""
    /\ cvInstitutions' = [cvInstitutions EXCEPT ![institution].isVerified = verified]
    /\ cvIssuerRole' = IF verified THEN cvIssuerRole \cup {institution}
                                   ELSE cvIssuerRole \ {institution}
    /\ UNCHANGED <<now, cvCredentials, cvCredentialExists, cvPaused, cvEverRevoked>>

CredVerse_issueCredential(sender, id, recipient, ipfsHash, credentialType, expiresAt) ==
    /\ sender \in cvIssuerRole
    /\ ~cvPaused
    /\ id # ""
    /\ recipient # ZeroAddress
    /\ ipfsHash # ""
    /\ ~cvCredentialExists[id]
    /\ cvInstitutions[sender].isVerified
    /\ cvInstitutions[sender].isActive
    /\ cvCredentials' = [cvCredentials EXCEPT ![id] =
           [credentialId |-> id, issuer |-> sender, recipient |-> recipient,
            ipfsHash |-> ipfsHash, credentialType |-> credentialType,
            issuedAt |-> now, expiresAt |-> expiresAt,
            isRevoked |-> FALSE, revokedReason |-> ""]]
    /\ cvCredentialExists' = [cvCredentialExists EXCEPT ![id] = TRUE]
    /\ UNCHANGED <<now, cvInstitutions, cvIssuerRole, cvPaused, cvEverRevoked>>

\* faulty variant: revoking also ends the credential's validity period
CredVerse_revokeCredential_StampsExpiry(sender, id, reason) ==
    /\ ~cvPaused
    /\ cvCredentialExists[id]
    /\ cvCredentials[id].issuer = sender
    /\ ~cvCredentials[id].isRevoked
    /\ cvCredentials' = [cvCredentials EXCEPT ![id].isRevoked = TRUE,
                                              ![id].revokedReason = reason,
                                              ![id].expiresAt = now + 1]
    /\ cvEverRevoked' = cvEverRevoked \cup {id}
    /\ UNCHANGED <<now, cvInstitutions, cvCredentialExists, cvIssuerRole, cvPaused>>

CredVerse_revokeCredential(sender, id, reason) ==
    /\ ~cvPaused
    /\ cvCredentialExists[id]
    /\ cvCredentials[id].issuer = sender
    /\ ~cvCredentials[id].isRevoked
    /\ cvCredentials' = [cvCredentials EXCEPT ![id].isRevoked = TRUE,
                                              ![id].revokedReason = reason]
    /\ cvEverRevoked' = cvEverRevoked \cup {id}
    /\ UNCHANGED <<now, cvInstitutions, cvCredentialExists, cvIssuerRole, cvPaused>>

CredVerse_pause(sender) ==
    /\ sender = Admin
    /\ ~cvPaused
    /\ cvPaused' = TRUE
    /\ UNCHANGED <<now, cvInstitutions, cvCredentials, cvCredentialExists,
                   cvIssuerRole, cvEverRevoked>>

CredVerse_unpause(sender) ==
    /\ sender = Admin
    /\ cvPaused
    /\ cvPaused' = FALSE
    /\ UNCHANGED <<now, cvInstitutions, cvCredentials, cvCredentialExists,
                   cvIssuerRole, cvEverRevoked>>

RevertCredentialDoesNotExist == "execution reverted: Credential does not exist"

\* faulty variant: the expiry comparison is inverted
CredVerse_verifyCredential_InvertedExpiry(id) ==
    IF ~cvCredentialExists[id]
    THEN [ok |-> FALSE, error |-> RevertCredentialDoesNotExist, value |-> None]
    ELSE LET c == cvCredentials[id] IN
         [ok |-> TRUE, error |-> "",
          value |-> Some(
            [isValid |-> cvInstitutions[c.issuer].isVerified
                         /\ cvInstitutions[c.issuer].isActive,
             isExpired |-> c.expiresAt > 0 /\ now < c.expiresAt,
             isRevoked |-> c.isRevoked,
             issuer |-> c.issuer,
             recipient |-> c.recipient,
             credentialType |-> c.credentialType])]

\* view: the returned tuple, or the revert reason
CredVerse_verifyCredential(id) ==
    IF ~cvCredentialExists[id]
    THEN [ok |-> FALSE, error |-> RevertCredentialDoesNotExist, value |-> None]
    ELSE LET c == cvCredentials[id] IN
         [ok |-> TRUE, error |-> "",
          value |-> Some(
            [isValid |-> cvInstitutions[c.issuer].isVerified
                         /\ cvInstitutions[c.issuer].isActive,
             isExpired |-> c.expiresAt > 0 /\ now > c.expiresAt,
             isRevoked |-> c.isRevoked,
             issuer |-> c.issuer,
             recipient |-> c.recipient,
             credentialType |-> c.credentialType])]

CredVerse_getCredential(id) ==
    IF ~cvCredentialExists[id]
    THEN [ok |-> FALSE, error |-> RevertCredentialDoesNotExist, value |-> None]
    ELSE [ok |-> TRUE, error |-> "", value |-> Some(cvCredentials[id])]


(***************************************************************************)
(* CredentialRegistry.sol                                                  *)
(***************************************************************************)
\* accounts that send transactions to CredentialRegistry
CrAccounts == {"admin", "inst"}
CrInstitutionAccounts == {"inst"}
Subjects == {"0x0", "student"}
\* bytes32 credential keys; ZeroHash is bytes32(0)
ZeroHash == "0x00"
\* the ids uuidv4() can hand out, as `cred-${uuidv4()}`
Uuids == {"cred-1", "cred-2"}
\* contractService.hashCredentialId: keccak256 of the id's UTF-8 bytes
hashCredentialId(id) == "keccak256(" \o id \o ")"
VcIds == {hashCredentialId(u) : u \in Uuids}
CrExpiryInputs == {0, 1, 2}

\* content references offered to issueCredential
CrIpfsHashes == {"QmVC", "QmOther"}

\* reasons offered to revokeCredential
CrReasons == {"", "data entry error", "issued in error"}

CrZeroInstitution ==
    [name |-> "", did |-> "", verified |-> FALSE, active |-> FALSE,
     registeredAt |-> 0]

CrZeroCredential ==
    [issuer |-> ZeroAddress, subject |-> ZeroAddress, ipfsHash |-> "",
     issuedAt |-> 0, expiresAt |-> 0, revoked |-> FALSE, revokedReason |-> "",
     credentialType |-> ""]

\* the constructor grants DEFAULT_ADMIN_ROLE and ADMIN_ROLE to the deployer
HasAdminRole(a) == a = Admin

CrInit ==
    /\ crInstitutions = [a \in CrAccounts |-> CrZeroInstitution]
    /\ crCredentials = [h \in VcIds |-> CrZeroCredential]
    /\ crCredentialExists = [h \in VcIds |-> FALSE]
    /\ crIssuerCredentials = [a \in CrAccounts |-> <<>>]
    /\ crSubjectCredentials = [a \in Subjects |-> <<>>]
    /\ crIssuerRole = {}
    /\ crPaused = FALSE
    /\ totalCredentials = 0
    /\ totalInstitutions = 0
    /\ totalRevoked = 0

\* faulty variant: an address already registered may register again
CredentialRegistry_registerInstitution_AllowsAgain(sender, name, did) ==
    /\ name # ""
    /\ did # ""
    /\ crInstitutions' = [crInstitutions EXCEPT ![sender] =
           [name |-> name, did |-> did, verified |-> FALSE, active |-> TRUE,
            registeredAt |-> now]]
    /\ totalInstitutions' =
           IF crInstitutions[sender].name = "" THEN totalInstitutions + 1
           ELSE totalInstitutions
    /\ UNCHANGED <<now, crCredentials, crCredentialExists, crIssuerCredentials,
                   crSubjectCredentials, crIssuerRole, crPaused,
                   totalCredentials, totalRevoked>>

CredentialRegistry_registerInstitution(sender, name, did) ==
    /\ name # ""
    /\ did # ""
    /\ crInstitutions[sender].name = ""
    /\ crInstitutions' = [crInstitutions EXCEPT ![sender] =
           [name |-> name, did |-> did, verified |-> FALSE, active |-> TRUE,
            registeredAt |-> now]]
    /\ totalInstitutions' = totalInstitutions + 1
    /\ UNCHANGED <<now, crCredentials, crCredentialExists, crIssuerCredentials,
                   crSubjectCredentials, crIssuerRole, crPaused,
                   totalCredentials, totalRevoked>>

CredentialRegistry_verifyInstitution(sender, institution, verified) ==
    /\ HasAdminRole(sender)
    /\ crInstitutions[institution].name # ""
    /\ crInstitutions' = [crInstitutions EXCEPT ![institution].verified = verified]
    /\ crIssuerRole' = IF verified THEN crIssuerRole \cup {institution}
                                   ELSE crIssuerRole \ {institution}
    /\ UNCHANGED <<now, crCredentials, crCredentialExists, crIssuerCredentials,
                   crSubjectCredentials, crPaused, totalCredentials,
                   totalInstitutions, totalRevoked>>

\* faulty variant: an inactive institution may still issue
CredentialRegistry_issueCredential_Revert_IgnoresActive(sender, vcId, ipfsHash, credentialType, expiresAt) ==
    IF sender \notin crIssuerRole THEN "AccessControl: account is missing role"
    ELSE IF crPaused THEN "Pausable: paused"
    ELSE IF vcId = ZeroHash THEN "Invalid credential ID"
    ELSE IF ipfsHash = "" THEN "IPFS hash required"
    ELSE IF credentialType = "" THEN "Credential type required"
    ELSE IF crCredentialExists[vcId] THEN "Credential already exists"
    ELSE IF ~crInstitutions[sender].verified THEN "Institution not verified"
    ELSE IF expiresAt > 0 /\ ~(expiresAt > now)
         THEN "Expiration date must be in the future"
    ELSE ""

\* faulty variant: an id already recorded may be issued again
CredentialRegistry_issueCredential_Revert_AllowsExisting(sender, vcId, ipfsHash, credentialType, expiresAt) ==
    IF sender \notin crIssuerRole THEN "AccessControl: account is missing role"
    ELSE IF crPaused THEN "Pausable: paused"
    ELSE IF vcId = ZeroHash THEN "Invalid credential ID"
    ELSE IF ipfsHash = "" THEN "IPFS hash required"
    ELSE IF credentialType = "" THEN "Credential type required"
    ELSE IF ~crInstitutions[sender].verified THEN "Institution not verified"
    ELSE IF ~crInstitutions[sender].active THEN "Institution not active"
    ELSE IF expiresAt > 0 /\ ~(expiresAt > now)
         THEN "Expiration date must be in the future"
    ELSE ""

\* the modifiers and require statements of issueCredential, in order: the
\* reason the call reverts with, "" when it goes through
CredentialRegistry_issueCredential_Revert(sender, vcId, ipfsHash, credentialType, expiresAt) ==
    IF sender \notin crIssuerRole THEN "AccessControl: account is missing role"
    ELSE IF crPaused THEN "Pausable: paused"
    ELSE IF vcId = ZeroHash THEN "Invalid credential ID"
    ELSE IF ipfsHash = "" THEN "IPFS hash required"
    ELSE IF credentialType = "" THEN "Credential type required"
    ELSE IF crCredentialExists[vcId] THEN "Credential already exists"
    ELSE IF ~crInstitutions[sender].verified THEN "Institution not verified"
    ELSE IF ~crInstitutions[sender].active THEN "Institution not active"
    ELSE IF expiresAt > 0 /\ ~(expiresAt > now)
         THEN "Expiration date must be in the future"
    ELSE ""

CredentialRegistry_issueCredential_Requires(sender, vcId, ipfsHash, credentialType, expiresAt) ==
    CredentialRegistry_issueCredential_Revert(sender, vcId, ipfsHash,
                                              credentialType, expiresAt) = ""

CredentialRegistry_issueCredential(sender, vcId, subject, ipfsHash, credentialType, expiresAt) ==
    /\ CredentialRegistry_issueCredential_Requires(sender, vcId, ipfsHash,
                                                   credentialType, expiresAt)
    /\ crCredentials' = [crCredentials EXCEPT ![vcId] =
           [issuer |-> sender, subject |-> subject, ipfsHash |-> ipfsHash,
            issuedAt |-> now, expiresAt |-> expiresAt, revoked |-> FALSE,
            revokedReason |-> "", credentialType |-> credentialType]]
    /\ crCredentialExists' = [crCredentialExists EXCEPT ![vcId] = TRUE]
    /\ crIssuerCredentials' = [crIssuerCredentials EXCEPT
           ![sender] = Append(@, vcId)]
    /\ crSubjectCredentials' =
           IF subject # ZeroAddress
           THEN [crSubjectCredentials EXCEPT ![subject] = Append(@, vcId)]
           ELSE crSubjectCredentials
    /\ totalCredentials' = totalCredentials + 1
    /\ UNCHANGED <<now, crInstitutions, crIssuerRole, crPaused,
                   totalInstitutions, totalRevoked>>

\* faulty variant: a revoked credential may be revoked again
CredentialRegistry_revokeCredential_Revert_AllowsRepeat(sender, vcId, reason) ==
    IF crPaused THEN "Pausable: paused"
    ELSE IF ~crCredentialExists[vcId] THEN "Credential does not exist"
    ELSE IF reason = "" THEN "Revocation reason required"
    ELSE IF crCredentials[vcId].issuer # sender THEN "Only issuer can revoke"
    ELSE ""

\* faulty variant: revocation is not held back by a pause
CredentialRegistry_revokeCredential_Revert_IgnoresPause(sender, vcId, reason) ==
    IF ~crCredentialExists[vcId] THEN "Credential does not exist"
    ELSE IF reason = "" THEN "Revocation reason required"
    ELSE IF crCredentials[vcId].issuer # sender THEN "Only issuer can revoke"
    ELSE IF crCredentials[vcId].revoked THEN "Credential already revoked"
    ELSE ""

\* the modifier and require statements of revokeCredential, in order: the
\* reason the call reverts with, "" when it goes through
CredentialRegistry_revokeCredential_Revert(sender, vcId, reason) ==
    IF crPaused THEN "Pausable: paused"
    ELSE IF ~crCredentialExists[vcId] THEN "Credential does not exist"
    ELSE IF reason = "" THEN "Revocation reason required"
    ELSE IF crCredentials[vcId].issuer # sender THEN "Only issuer can revoke"
    ELSE IF crCredentials[vcId].revoked THEN "Credential already revoked"
    ELSE ""

\* faulty variant: the revocation is not counted
CredentialRegistry_revokeCredential_Uncounted(sender, vcId, reason) ==
    /\ CredentialRegistry_revokeCredential_Revert(sender, vcId, reason) = ""
    /\ crCredentials' = [crCredentials EXCEPT ![vcId].revoked = TRUE,
                                              ![vcId].revokedReason = reason]
    /\ UNCHANGED <<now, crInstitutions, crCredentialExists, crIssuerCredentials,
                   crSubjectCredentials, crIssuerRole, crPaused,
                   totalCredentials, totalInstitutions, totalRevoked>>

CredentialRegistry_revokeCredential(sender, vcId, reason) ==
    /\ CredentialRegistry_revokeCredential_Revert(sender, vcId, reason) = ""
    /\ crCredentials' = [crCredentials EXCEPT ![vcId].revoked = TRUE,
                                              ![vcId].revokedReason = reason]
    /\ totalRevoked' = totalRevoked + 1
    /\ UNCHANGED <<now, crInstitutions, crCredentialExists, crIssuerCredentials,
                   crSubjectCredentials, crIssuerRole, crPaused,
                   totalCredentials, totalInstitutions>>

CredentialRegistry_pause(sender) ==
    /\ HasAdminRole(sender)
    /\ ~crPaused
    /\ crPaused' = TRUE
    /\ UNCHANGED <<now, crInstitutions, crCredentials, crCredentialExists,
                   crIssuerCredentials, crSubjectCredentials, crIssuerRole,
                   totalCredentials, totalInstitutions, totalRevoked>>

CredentialRegistry_unpause(sender) ==
    /\ HasAdminRole(sender)
    /\ crPaused
    /\ crPaused' = FALSE
    /\ UNCHANGED <<now, crInstitutions, crCredentials, crCredentialExists,
                   crIssuerCredentials, crSubjectCredentials, crIssuerRole,
                   totalCredentials, totalInstitutions, totalRevoked>>

\* faulty variant: the deactivated institution keeps the issuer role
CredentialRegistry_deactivateInstitution_KeepsRole(sender, institution) ==
    /\ HasAdminRole(sender)
    /\ crInstitutions[institution].name # ""
    /\ crInstitutions' = [crInstitutions EXCEPT ![institution].active = FALSE]
    /\ UNCHANGED <<now, crCredentials, crCredentialExists, crIssuerCredentials,
                   crSubjectCredentials, crIssuerRole, crPaused, totalCredentials,
                   totalInstitutions, totalRevoked>>

CredentialRegistry_deactivateInstitution(sender, institution) ==
    /\ HasAdminRole(sender)
    /\ crInstitutions[institution].name # ""
    /\ crInstitutions' = [crInstitutions EXCEPT ![institution].active = FALSE]
    /\ crIssuerRole' = crIssuerRole \ {institution}
    /\ UNCHANGED <<now, crCredentials, crCredentialExists, crIssuerCredentials,
                   crSubjectCredentials, crPaused, totalCredentials,
                   totalInstitutions, totalRevoked>>

\* faulty variant: the expiry test is skipped for a revoked credential
CredentialRegistry_isValid_ExpiryUnlessRevoked(vcId) ==
    IF ~crCredentialExists[vcId]
    THEN [ok |-> FALSE, error |-> RevertCredentialDoesNotExist, value |-> None]
    ELSE LET cred == crCredentials[vcId]
             inst == crInstitutions[cred.issuer]
             isRevoked == cred.revoked
             isExpired == ~isRevoked /\ cred.expiresAt > 0 /\ now >= cred.expiresAt
         IN [ok |-> TRUE, error |-> "",
             value |-> Some(
               [isValid |-> ~isRevoked /\ ~isExpired /\ inst.verified /\ inst.active,
                isExpired |-> isExpired,
                isRevoked |-> isRevoked])]

\* view: (isValid, isExpired, isRevoked), or the revert reason
CredentialRegistry_isValid(vcId) ==
    IF ~crCredentialExists[vcId]
    THEN [ok |-> FALSE, error |-> RevertCredentialDoesNotExist, value |-> None]
    ELSE LET cred == crCredentials[vcId]
             inst == crInstitutions[cred.issuer]
             isRevoked == cred.revoked
             isExpired == cred.expiresAt > 0 /\ now >= cred.expiresAt
         IN [ok |-> TRUE, error |-> "",
             value |-> Some(
               [isValid |-> ~isRevoked /\ ~isExpired /\ inst.verified /\ inst.active,
                isExpired |-> isExpired,
                isRevoked |-> isRevoked])]

CredentialRegistry_getCredential(vcId) ==
    IF ~crCredentialExists[vcId]
    THEN [ok |-> FALSE, error |-> RevertCredentialDoesNotExist, value |-> None]
    ELSE [ok |-> TRUE, error |-> "", value |-> Some(crCredentials[vcId])]

(***************************************************************************)
(* The JSON-RPC client between the server and the chain.                   *)
(***************************************************************************)
RpcErrors == {"network timeout", "could not detect network"}
RpcOutcomes == {"ok"} \cup RpcErrors

\* an eth_call: the contract's answer, unless the transport fails first
RpcCall(rpc, answer) ==
    IF rpc = "ok" THEN answer
    ELSE [ok |-> FALSE, error |-> rpc, value |-> None]

(***************************************************************************)
(* ipfsService.getCredentialMetadata as the handler sees it: the JSON      *)
(* document stored under the cid, or an Error.                             *)
(***************************************************************************)
IpfsOutcomes == {"ok", "no client", "timeout", "not found", "not json"}

IpfsErrorCause(outcome) ==
    CASE outcome = "timeout" -> "request timeout"
      [] outcome = "not found" -> "content not found"
      [] outcome = "not json" -> "Unexpected token in JSON"
      [] OTHER -> ""

getCredentialMetadata(outcome, cid) ==
    CASE outcome = "ok" ->
           [ok |-> TRUE, error |-> "", value |-> Some([document |-> cid])]
      [] outcome = "no client" ->
           [ok |-> FALSE, error |-> "IPFS client not initialized", value |-> None]
      [] OTHER ->
           [ok |-> FALSE, value |-> None,
            error |-> "IPFS retrieval failed: " \o IpfsErrorCause(outcome)]

(***************************************************************************)
(* GET /api/verify/:credentialId  (server/routes/verification.js)          *)
(***************************************************************************)
Undefined == "undefined"

\* const { includeMetadata = true } = req.query, then its truthiness
IncludeMetadata(q) == IF q = "<absent>" THEN TRUE ELSE q # ""

InitialVerificationResult(id) ==
    [credentialId |-> id,
     isValid |-> FALSE, isExpired |-> FALSE, isRevoked |-> FALSE,
     issuer |-> "null", recipient |-> "null", credentialType |-> "null",
     issuedAt |-> None, expiresAt |-> None,
     blockchain |-> [verified |-> FALSE, error |-> Undefined],
     ipfs |-> [verified |-> FALSE, metadata |-> None, error |-> Undefined],
     veramo |-> [verified |-> FALSE, errors |-> <<>>]]

\* new Date(seconds * 1000).toISOString(): the instant, in milliseconds
ToISOString(seconds) == [epochMs |-> seconds * 1000]

\* the assignments made once both reads have returned
ApplyBlockchainResult(vr, br) ==
    [vr EXCEPT !.blockchain.verified = TRUE,
               !.isValid = br.isValid,
               !.isExpired = br.isExpired,
               !.isRevoked = br.isRevoked,
               !.issuer = br.issuer,
               !.recipient = br.recipient,
               !.credentialType = br.credentialType]

\* faulty variant: the verdict fields are assigned as soon as the first read returns
AfterVerifyCredential_Assigns(vr, br) == ApplyBlockchainResult(vr, br)

\* nothing is assigned between the two awaits
AfterVerifyCredential(vr, br) == vr

ApplyIssuedAt(vr, cred) ==
    [vr EXCEPT !.issuedAt = Some(ToISOString(cred.issuedAt))]

\* faulty variant: the revocation flag is taken from the second read
ApplyExpiresAt_CopiesRevoked(vr, cred) ==
    IF cred.expiresAt > 0
    THEN [vr EXCEPT !.expiresAt = Some(ToISOString(cred.expiresAt)),
                    !.isRevoked = cred.isRevoked]
    ELSE [vr EXCEPT !.isRevoked = cred.isRevoked]

ApplyExpiresAt(vr, cred) ==
    IF cred.expiresAt > 0
    THEN [vr EXCEPT !.expiresAt = Some(ToISOString(cred.expiresAt))]
    ELSE vr

\* the catch around the blockchain block
OnBlockchainError(vr, message) ==
    [vr EXCEPT !.blockchain.error = message]

\* faulty variant: the message is compared whole instead of searched
IsCredentialNotFound_Exact(message) ==
    message = "Credential does not exist"

\* error.message.includes('Credential does not exist')
IsCredentialNotFound(message) ==
    message = RevertCredentialDoesNotExist

OnIpfsSuccess(vr, metadata) ==
    [vr EXCEPT !.ipfs.verified = TRUE, !.ipfs.metadata = Some(metadata)]

\* faulty variant: a failed fetch also clears the validity flag
OnIpfsFailure_Invalidates(vr, message) ==
    [vr EXCEPT !.ipfs.error = message, !.isValid = FALSE]

\* faulty variant: no inner try/catch, the failure lands in the blockchain catch
OnIpfsFailure_AsBlockchainError(vr, message) ==
    [vr EXCEPT !.blockchain.error = message]

OnIpfsFailure(vr, message) ==
    [vr EXCEPT !.ipfs.error = message]

\* faulty variant: revocation is left out of the reduction
OverallValid_IgnoresRevocation(vr) ==
    vr.isValid /\ ~vr.isExpired

OverallValid(vr) ==
    vr.isValid /\ ~vr.isExpired /\ ~vr.isRevoked

NoResponse ==
    [status |-> 0, success |-> FALSE, error |-> "", overallValid |-> None]

VerdictResponse(vr) ==
    [status |-> 200, success |-> TRUE, error |-> "",
     overallValid |-> Some(OverallValid(vr))]

NotFoundResponse ==
    [status |-> 404, success |-> FALSE, error |-> "Credential not found",
     overallValid |-> None]

\* what the catch around the blockchain block answers
AfterBlockchainError(message, vr) ==
    IF IsCredentialNotFound(message) THEN NotFoundResponse
    ELSE VerdictResponse(vr)

\* the facts the registry holds about a credential, read from storage
Eligible(id) ==
    /\ cvCredentialExists[id]
    /\ ~cvCredentials[id].isRevoked
    /\ (cvCredentials[id].expiresAt = 0 \/ now < cvCredentials[id].expiresAt)
    /\ cvInstitutions[cvCredentials[id].issuer].isVerified
    /\ cvInstitutions[cvCredentials[id].issuer].isActive

\* a call whose selector the deployed contract does not have
RevertNoSuchFunction == "execution reverted (no data present)"

\* verifyCredential(string) sent to the configured address: CredVerseRegistry
\* answers it; CredentialRegistry has no such function and no fallback
Registry_verifyCredential(id) ==
    IF deployedRegistry = "CredVerseRegistry"
    THEN CredVerse_verifyCredential(id)
    ELSE [ok |-> FALSE, error |-> RevertNoSuchFunction, value |-> None]

RegistryEligible(id) ==
    deployedRegistry = "CredVerseRegistry" /\ Eligible(id)

NoHistory ==
    [startRevoked |-> FALSE, startEligible |-> FALSE, readEligible |-> FALSE,
     lookup |-> "none", conversion |-> "none", fetch |-> "none",
     beforeFetch |-> None, firstRead |-> None]

VerifyInit ==
    /\ vpc = "idle"
    /\ vreq = [credentialId |-> "", includeMetadata |-> "<absent>"]
    /\ verificationResult = InitialVerificationResult("")
    /\ blockchainResult = None
    /\ credential = None
    /\ vresponse = NoResponse
    /\ vhist = NoHistory

\* a request arrives; the handler runs to its first await
VerifyBegin(id, q) ==
    /\ vpc \in {"idle", "done"}
    /\ vreq' = [credentialId |-> id, includeMetadata |-> q]
    /\ blockchainResult' = None
    /\ credential' = None
    /\ LET vr == InitialVerificationResult(id)
           h == [NoHistory EXCEPT !.startRevoked = id \in cvEverRevoked,
                                  !.startEligible = RegistryEligible(id)]
       IN IF REGISTRY_ADDRESS
          THEN /\ verificationResult' = vr
               /\ vresponse' = NoResponse
               /\ vhist' = h
               /\ vpc' = "verifyCredential"
          ELSE LET vr2 == OnBlockchainError(vr, "Registry contract not deployed")
               IN /\ verificationResult' = vr2
                  /\ vresponse' = VerdictResponse(vr2)
                  /\ vhist' = [h EXCEPT !.lookup = "unconfigured"]
                  /\ vpc' = "done"
    /\ UNCHANGED <<chainVars, configVars>>

\* await registry.verifyCredential(credentialId) settles
VerifyCredentialReturns(rpc) ==
    /\ vpc = "verifyCredential"
    /\ LET r == RpcCall(rpc, Registry_verifyCredential(vreq.credentialId)) IN
       IF r.ok
       THEN /\ blockchainResult' = r.value
            /\ verificationResult' = AfterVerifyCredential(verificationResult, r.value[1])
            /\ vhist' = [vhist EXCEPT
                            !.readEligible = RegistryEligible(vreq.credentialId),
                            !.firstRead = Some([tuple |-> r.value[1],
                                                record |-> cvCredentials[vreq.credentialId]])]
            /\ vpc' = "getCredential"
            /\ UNCHANGED vresponse
       ELSE LET vr == OnBlockchainError(verificationResult, r.error) IN
            /\ verificationResult' = vr
            /\ vresponse' = AfterBlockchainError(r.error, vr)
            /\ vhist' = [vhist EXCEPT !.lookup =
                            IF rpc = "ok" THEN "notfound" ELSE "rpcerror"]
            /\ vpc' = "done"
            /\ UNCHANGED blockchainResult
    /\ UNCHANGED <<chainVars, configVars, vreq, credential>>

\* credential.issuedAt.toNumber() and the Date conversions: the value the
\* client library decoded either supports them or the call throws
ConversionOutcomes == {"ok", "throws at issuedAt", "throws at expiresAt"}
ConversionError == "credential.issuedAt.toNumber is not a function"

\* await registry.getCredential(credentialId) settles; the handler runs on to
\* the content-store await, or to its response
GetCredentialReturns(rpc, conv) ==
    /\ vpc = "getCredential"
    /\ LET r == RpcCall(rpc, CredVerse_getCredential(vreq.credentialId)) IN
       IF ~r.ok
       THEN LET vr == OnBlockchainError(verificationResult, r.error) IN
            /\ verificationResult' = vr
            /\ vresponse' = AfterBlockchainError(r.error, vr)
            /\ vhist' = [vhist EXCEPT !.lookup =
                            IF rpc = "ok" THEN "notfound" ELSE "rpcerror"]
            /\ vpc' = "done"
            /\ UNCHANGED credential
       ELSE LET cred == r.value[1]
                vr1 == ApplyBlockchainResult(verificationResult, blockchainResult[1])
                vr2 == ApplyIssuedAt(vr1, cred)
                vr3 == ApplyExpiresAt(vr2, cred)
                h == [vhist EXCEPT !.lookup = "ok", !.conversion = conv]
            IN
            /\ credential' = r.value
            /\ IF conv = "throws at issuedAt"
               THEN LET vr == OnBlockchainError(vr1, ConversionError) IN
                    /\ verificationResult' = vr
                    /\ vresponse' = AfterBlockchainError(ConversionError, vr)
                    /\ vhist' = h
                    /\ vpc' = "done"
               ELSE IF conv = "throws at expiresAt"
               THEN LET vr == OnBlockchainError(vr2, ConversionError) IN
                    /\ verificationResult' = vr
                    /\ vresponse' = AfterBlockchainError(ConversionError, vr)
                    /\ vhist' = h
                    /\ vpc' = "done"
               ELSE IF IncludeMetadata(vreq.includeMetadata) /\ cred.ipfsHash # ""
               THEN /\ verificationResult' = vr3
                    /\ vhist' = [h EXCEPT !.beforeFetch = Some(vr3)]
                    /\ vpc' = "ipfs"
                    /\ UNCHANGED vresponse
               ELSE /\ verificationResult' = vr3
                    /\ vresponse' = VerdictResponse(vr3)
                    /\ vhist' = h
                    /\ vpc' = "done"
    /\ UNCHANGED <<chainVars, configVars, vreq, blockchainResult>>

\* await ipfsService.getCredentialMetadata(credential.ipfsHash) settles
IpfsReturns(outcome) ==
    /\ vpc = "ipfs"
    /\ LET r == getCredentialMetadata(outcome, credential[1].ipfsHash)
           vr == IF r.ok THEN OnIpfsSuccess(verificationResult, r.value[1])
                         ELSE OnIpfsFailure(verificationResult, r.error)
       IN /\ verificationResult' = vr
          /\ vresponse' = VerdictResponse(vr)
          /\ vhist' = [vhist EXCEPT !.fetch = outcome]
          /\ vpc' = "done"
    /\ UNCHANGED <<chainVars, configVars, vreq, blockchainResult, credential>>

(***************************************************************************)
(* veramoService.verifyCredential / verifyPresentation                     *)
(* (server/services/veramoService.js)                                      *)
(***************************************************************************)
\* what the agent makes of a document's proof: verified, not verified, or an
\* exception (malformed document, unresolvable DID)
ProofOutcomes == {"valid", "invalid", "throws"}
Absent == "<absent>"
Documents == [id : {Absent} \cup CredentialIds, proof : ProofOutcomes]

VeramoService_verifyCredential(doc) ==
    CASE doc.proof = "valid" -> [verified |-> TRUE, errors |-> <<>>]
      [] doc.proof = "invalid" ->
           [verified |-> FALSE, errors |-> <<"invalid_signature">>]
      [] OTHER -> [verified |-> FALSE, errors |-> <<"agent.verifyCredential threw">>]

VeramoService_verifyPresentation(vp) ==
    CASE vp.proof = "valid" ->
           [verified |-> TRUE, credentials |-> vp.verifiableCredential,
            errors |-> <<>>]
      [] vp.proof = "invalid" ->
           [verified |-> FALSE, credentials |-> vp.verifiableCredential,
            errors |-> <<"invalid_signature">>]
      [] OTHER ->
           [verified |-> FALSE, credentials |-> None,
            errors |-> <<"agent.verifyPresentation threw">>]

(***************************************************************************)
(* POST /api/verify/credential  (server/routes/verification.js)            *)
(***************************************************************************)
BadRequest(message) ==
    [status |-> 400, success |-> FALSE, error |-> message, overallValid |-> None]

\* blockchainVerification after a registry answer / after the catch
BlockchainVerified(t) ==
    Some([verified |-> TRUE, isValid |-> Some(t.isValid),
          isExpired |-> Some(t.isExpired), isRevoked |-> Some(t.isRevoked),
          error |-> Undefined])

BlockchainNotVerified(message) ==
    Some([verified |-> FALSE, isValid |-> None, isExpired |-> None,
          isRevoked |-> None, error |-> message])

\* veramoResult.verified && (!blockchainVerification ||
\* blockchainVerification.isValid); None is JavaScript's undefined, which
\* res.json leaves out of the body
DocumentOverallValid(vres, bv) ==
    IF ~vres.verified THEN Some(FALSE)
    ELSE IF bv = None THEN Some(TRUE)
    ELSE bv[1].isValid

DocumentResponse(vres, bv) ==
    [status |-> 200, success |-> TRUE, error |-> "",
     overallValid |-> DocumentOverallValid(vres, bv)]

NoDocHistory ==
    [lookup |-> "none", recordAtRead |-> FALSE, revokedAtRead |-> FALSE,
     expiredAtRead |-> FALSE]

DocInit ==
    /\ dpc = "idle"
    /\ dreq = None
    /\ veramoResult = None
    /\ blockchainVerification = None
    /\ dresponse = NoResponse
    /\ dhist = NoDocHistory

\* a request arrives; the handler runs to its first await, or answers 400
DocBegin(body) ==
    /\ dpc \in {"idle", "done"}
    /\ dreq' = body
    /\ veramoResult' = None
    /\ blockchainVerification' = None
    /\ dhist' = NoDocHistory
    /\ IF body = None
       THEN /\ dresponse' = BadRequest("Verifiable credential is required")
            /\ dpc' = "done"
       ELSE /\ dresponse' = NoResponse
            /\ dpc' = "veramo"
    /\ UNCHANGED <<chainVars, configVars>>

\* await veramoService.verifyCredential(verifiableCredential) settles
DocVeramoReturns ==
    /\ dpc = "veramo"
    /\ LET vres == VeramoService_verifyCredential(dreq[1]) IN
       /\ veramoResult' = Some(vres)
       /\ IF dreq[1].id # Absent /\ REGISTRY_ADDRESS
          THEN /\ dpc' = "verifyCredential"
               /\ UNCHANGED <<dresponse, dhist>>
          ELSE /\ dresponse' = DocumentResponse(vres, None)
               /\ dhist' = [dhist EXCEPT !.lookup = "skipped"]
               /\ dpc' = "done"
    /\ UNCHANGED <<chainVars, configVars, dreq, blockchainVerification>>

\* await registry.verifyCredential(credentialId) settles
DocLookupReturns(rpc) ==
    /\ dpc = "verifyCredential"
    /\ LET r == RpcCall(rpc, CredVerse_verifyCredential(dreq[1].id))
           bv == IF r.ok THEN BlockchainVerified(r.value[1])
                         ELSE BlockchainNotVerified(r.error)
       IN /\ blockchainVerification' = bv
          /\ dresponse' = DocumentResponse(veramoResult[1], bv)
          /\ dhist' = [lookup |-> IF r.ok THEN "ok"
                                  ELSE IF rpc = "ok" THEN "notfound"
                                  ELSE "rpcerror",
                       recordAtRead |-> cvCredentialExists[dreq[1].id],
                       revokedAtRead |-> /\ cvCredentialExists[dreq[1].id]
                                         /\ cvCredentials[dreq[1].id].isRevoked,
                       expiredAtRead |-> /\ cvCredentialExists[dreq[1].id]
                                         /\ cvCredentials[dreq[1].id].expiresAt > 0
                                         /\ now > cvCredentials[dreq[1].id].expiresAt]
          /\ dpc' = "done"
    /\ UNCHANGED <<chainVars, configVars, dreq, veramoResult>>

(***************************************************************************)
(* POST /api/verify/presentation  (server/routes/verification.js)          *)
(***************************************************************************)
EmbeddedDocuments == [id : {Absent} \cup IssuableIds, proof : {"valid", "invalid"}]
EmbeddedLists == UNION {[1..n -> EmbeddedDocuments] : n \in 0..MaxEmbedded}
\* verifiableCredential is None when the presentation carries no array of
\* credentials
Presentations ==
    [proof : ProofOutcomes,
     verifiableCredential : {None} \cup {Some(l) : l \in EmbeddedLists}]

\* veramoResult.verified && credentialVerifications.every(cv => cv.verified)
PresentationOverallValid(vres, cvs) ==
    vres.verified /\ \A i \in 1..Len(cvs) : cvs[i].verified

PresentationResponse(vres, cvs) ==
    [status |-> 200, success |-> TRUE, error |-> "",
     overallValid |-> Some(PresentationOverallValid(vres, cvs))]

\* the credentials the handler's loop walks over
LoopCredentials(vres) ==
    IF vres.credentials = None THEN <<>> ELSE vres.credentials[1]

\* what the registry says of an embedded document's credential id: there is
\* no record, or verifyCredential's isValid
OnChainAccepts(doc) ==
    \/ doc.id = Absent
    \/ ~cvCredentialExists[doc.id]
    \/ CredVerse_verifyCredential(doc.id).value[1].isValid

NoPresHistory == [allOnChainAccepted |-> TRUE]

PresInit ==
    /\ ppc = "idle"
    /\ preq = None
    /\ pVeramoResult = None
    /\ credentialVerifications = <<>>
    /\ presponse = NoResponse
    /\ phist = NoPresHistory

\* a request arrives; the handler runs to its first await, or answers 400
PresBegin(body) ==
    /\ ppc \in {"idle", "done"}
    /\ preq' = body
    /\ pVeramoResult' = None
    /\ credentialVerifications' = <<>>
    /\ phist' = NoPresHistory
    /\ IF body = None
       THEN /\ presponse' = BadRequest("Verifiable presentation is required")
            /\ ppc' = "done"
       ELSE /\ presponse' = NoResponse
            /\ ppc' = "verifyPresentation"
    /\ UNCHANGED <<chainVars, configVars>>

\* the handler's tail once the loop is over: reduce and respond
PresRespond(vres, cvs) ==
    /\ presponse' = PresentationResponse(vres, cvs)
    /\ phist' = [allOnChainAccepted |->
                    \A i \in 1..Len(LoopCredentials(vres)) :
                        OnChainAccepts(LoopCredentials(vres)[i])]
    /\ ppc' = "done"

\* await veramoService.verifyPresentation(verifiablePresentation) settles
PresVeramoReturns ==
    /\ ppc = "verifyPresentation"
    /\ LET vres == VeramoService_verifyPresentation(preq[1]) IN
       /\ pVeramoResult' = Some(vres)
       /\ IF LoopCredentials(vres) # <<>>
          THEN /\ ppc' = "verifyCredential"
               /\ UNCHANGED <<presponse, phist>>
          ELSE PresRespond(vres, <<>>)
    /\ UNCHANGED <<chainVars, configVars, preq, credentialVerifications>>

\* await veramoService.verifyCredential(credential) settles for the next
\* embedded credential
PresCredentialReturns ==
    /\ ppc = "verifyCredential"
    /\ LET creds == LoopCredentials(pVeramoResult[1])
           cred == creds[Len(credentialVerifications) + 1]
           credVerification == VeramoService_verifyCredential(cred)
           cvs == Append(credentialVerifications,
                         [credentialId |-> cred.id,
                          verified |-> credVerification.verified,
                          errors |-> credVerification.errors])
       IN /\ credentialVerifications' = cvs
          /\ IF Len(cvs) = Len(creds)
             THEN PresRespond(pVeramoResult[1], cvs)
             ELSE UNCHANGED <<ppc, presponse, phist>>
    /\ UNCHANGED <<chainVars, configVars, preq, pVeramoResult>>

(***************************************************************************)
(* POST /api/credentials/issue  (server/routes/credentials.js), for a      *)
(* request that has passed requireInstitution.                             *)
(***************************************************************************)
\* JavaScript's !x for the values a body field takes here
Falsy(x) == x \in {Absent, ""}

\* a body field is Absent, the empty string, or a value
NameInputs == {Absent, "Ann Lee"}
EmailInputs == {Absent, "", "Ann@uni.edu"}
CourseInputs == {Absent, "BSc"}
TypeInputs == {Absent, "Diploma"}
WalletInputs == {Absent, "student"}
ExpirationInputs == {Absent, "1970-01-01T00:00:02Z", "soon"}
\* the optional fields vary on the bodies that have every required field
IssueBodies ==
    {b \in [studentName : NameInputs, studentEmail : EmailInputs,
            courseName : CourseInputs, credentialType : TypeInputs,
            studentWallet : WalletInputs, expirationDate : ExpirationInputs] :
        (Falsy(b.studentName) \/ Falsy(b.studentEmail) \/ Falsy(b.courseName)
            \/ Falsy(b.credentialType))
        => (b.studentWallet = Absent /\ b.expirationDate = Absent)}

\* the account of PRIVATE_KEY, with which contractService signs
ServerWallet == "inst"
ContractServiceStates == {"not ready", "read-only", "signer"}

\* faulty variant: the validation forgets studentEmail
MissingRequiredFields_WithoutEmail(body) ==
    \/ Falsy(body.studentName)
    \/ Falsy(body.courseName)
    \/ Falsy(body.credentialType)

\* !studentName || !studentEmail || !courseName || !credentialType
MissingRequiredFields(body) ==
    \/ Falsy(body.studentName)
    \/ Falsy(body.studentEmail)
    \/ Falsy(body.courseName)
    \/ Falsy(body.credentialType)

\* `student-${studentEmail.toLowerCase().replace('@', '-at-')}`
StudentAlias(email) ==
    CASE email = "Ann@uni.edu" -> "student-ann-at-uni.edu"
      [] OTHER -> "student-" \o email

\* Math.floor(new Date(expiresAt).getTime() / 1000), None for NaN
ExpirationTimestamp(expiresAt) ==
    CASE Falsy(expiresAt) -> Some(0)
      [] expiresAt = "1970-01-01T00:00:02Z" -> Some(2)
      [] OTHER -> None

\* the cid of a document: one per content, and the content carries the id
MetadataCid(id) == "bafy-metadata-" \o id
VcCid(id) == "bafy-vc-" \o id

\* errorHandler: the status for an error passed to next()
ErrorHandlerStatus(message) ==
    IF message \in {"IPFS client not initialized", "IPFS upload failed"}
    THEN 503 ELSE 500

NoIssueResponse ==
    [status |-> 0, success |-> FALSE, error |-> "", credentialId |-> None,
     verifiableCredential |-> None, metadataCid |-> None, vcCid |-> None,
     qrIpfsHash |-> None, blockchain |-> None]

IssueBadRequest ==
    [NoIssueResponse EXCEPT !.status = 400,
        !.error = "Missing required fields: studentName, studentEmail, courseName, credentialType"]

IssueErrorResponse(message) ==
    [NoIssueResponse EXCEPT !.status = ErrorHandlerStatus(message),
                            !.error = message]

\* faulty variant: the receipt claims an anchor whatever happened
IssueReceipt_AlwaysAnchored(id, vc, metadataCid, vcCid, blockchain) ==
    [status |-> 201, success |-> TRUE, error |-> "", credentialId |-> Some(id),
     verifiableCredential |-> Some(vc),
     metadataCid |-> Some(metadataCid), vcCid |-> Some(vcCid),
     qrIpfsHash |-> Some(metadataCid),
     blockchain |-> Some([credentialHash |-> hashCredentialId(id)])]

\* the 201 body; blockchain is blockchainResult || null
IssueReceipt(id, vc, metadataCid, vcCid, blockchain) ==
    [status |-> 201, success |-> TRUE, error |-> "", credentialId |-> Some(id),
     verifiableCredential |-> Some(vc),
     metadataCid |-> Some(metadataCid), vcCid |-> Some(vcCid),
     qrIpfsHash |-> Some(metadataCid), blockchain |-> blockchain]

\* succeeded: the awaited steps that returned; chain: what became of the
\* call to contractService.issueCredential, if it was made
NoIssueHistory ==
    [dids |-> {}, pinned |-> {}, tx |-> 0, awaits |-> 0, succeeded |-> {},
     chain |-> "none"]

IssueInit ==
    /\ usedUuids = {}
    /\ didStore = {}
    /\ ipfsPinned = {}
    /\ txSent = 0
    /\ ipc = "idle"
    /\ ireq = [f \in {"studentName", "studentEmail", "courseName",
                      "credentialType", "studentWallet", "expirationDate"}
                  |-> Absent]
    /\ credentialId = None
    /\ studentDID = None
    /\ ipfsResult = None
    /\ verifiableCredential = None
    /\ vcIpfsResult = None
    /\ iresponse = NoIssueResponse
    /\ ihist = NoIssueHistory

\* the handler's locals go when it returns
IssueLocalsDropped ==
    /\ credentialId' = None
    /\ studentDID' = None
    /\ ipfsResult' = None
    /\ verifiableCredential' = None
    /\ vcIpfsResult' = None

\* next(error): the handler ends with the error handler's response
IssueFails(message) ==
    /\ iresponse' = IssueErrorResponse(message)
    /\ IssueLocalsDropped
    /\ ipc' = "done"

\* a request arrives; the handler validates, draws an id and runs to its
\* first await, or answers 400
IssueBegin(body, uuid) ==
    /\ ipc \in {"idle", "done"}
    /\ ireq' = body
    /\ ihist' = [NoIssueHistory EXCEPT !.dids = didStore,
                     !.pinned = ipfsPinned, !.tx = txSent]
    /\ IF MissingRequiredFields(body)
       THEN /\ iresponse' = IssueBadRequest
            /\ IssueLocalsDropped
            /\ ipc' = "done"
            /\ UNCHANGED usedUuids
       ELSE /\ uuid \notin usedUuids
            /\ usedUuids' = usedUuids \cup {uuid}
            /\ credentialId' = Some(uuid)
            /\ studentDID' = None
            /\ ipfsResult' = None
            /\ verifiableCredential' = None
            /\ vcIpfsResult' = None
            /\ iresponse' = NoIssueResponse
            /\ ipc' = "createStudentDID"
    /\ UNCHANGED <<now, crVars, contractServiceState, didStore, ipfsPinned, txSent>>

\* await veramoService.createStudentDID(studentEmail) settles
IssueDidReturns(outcome) ==
    /\ ipc = "createStudentDID"
    /\ ihist' = [ihist EXCEPT !.awaits = @ + 1,
           !.succeeded = IF outcome = "ok" /\ ireq.studentEmail # Absent THEN @ \cup {"did"} ELSE @]
    /\ IF outcome = "ok" /\ ireq.studentEmail # Absent
       THEN /\ didStore' = didStore \cup {StudentAlias(ireq.studentEmail)}
            /\ studentDID' = Some("did:key:" \o StudentAlias(ireq.studentEmail))
            /\ ipc' = "uploadMetadata"
            /\ UNCHANGED <<credentialId, ipfsResult, verifiableCredential,
                           vcIpfsResult, iresponse>>
       ELSE /\ IssueFails("Failed to create DID")
            /\ UNCHANGED didStore
    /\ UNCHANGED <<now, crVars, contractServiceState, usedUuids, ipfsPinned,
                   txSent, ireq>>

\* await ipfsService.uploadCredentialMetadata(metadata) settles
IssueMetadataUploadReturns(outcome) ==
    /\ ipc = "uploadMetadata"
    /\ ihist' = [ihist EXCEPT !.awaits = @ + 1,
           !.succeeded = IF outcome = "ok" THEN @ \cup {"metadata"} ELSE @]
    /\ IF outcome = "ok"
       THEN /\ ipfsPinned' = ipfsPinned \cup {MetadataCid(credentialId[1])}
            /\ ipfsResult' = Some(MetadataCid(credentialId[1]))
            /\ ipc' = "issueCredential"
            /\ UNCHANGED <<credentialId, studentDID, verifiableCredential,
                           vcIpfsResult, iresponse>>
       ELSE /\ IssueFails(outcome)
            /\ UNCHANGED ipfsPinned
    /\ UNCHANGED <<now, crVars, contractServiceState, usedUuids, didStore,
                   txSent, ireq>>

\* faulty variant: a failed proof creation is swallowed and the handler
\* carries on with the document it was given
IssueVcReturns_SwallowsFailure(outcome) ==
    /\ ipc = "issueCredential"
    /\ ihist' = [ihist EXCEPT !.awaits = @ + 1,
           !.succeeded = IF outcome = "ok" THEN @ \cup {"vc"} ELSE @]
    /\ verifiableCredential' =
           Some([id |-> credentialId[1],
                 proof |-> IF outcome = "ok" THEN "valid" ELSE "invalid"])
    /\ ipc' = "uploadVC"
    /\ UNCHANGED <<credentialId, studentDID, ipfsResult, vcIpfsResult, iresponse>>
    /\ UNCHANGED <<now, crVars, contractServiceState, usedUuids, didStore,
                   ipfsPinned, txSent, ireq>>

\* await veramoService.issueCredential(credentialData) settles; an
\* expirationDate that is no date makes toISOString throw
IssueVcReturns(outcome) ==
    /\ ipc = "issueCredential"
    /\ ihist' = [ihist EXCEPT !.awaits = @ + 1,
           !.succeeded = IF outcome = "ok" /\ ExpirationTimestamp(ireq.expirationDate) # None THEN @ \cup {"vc"} ELSE @]
    /\ IF outcome = "ok" /\ ExpirationTimestamp(ireq.expirationDate) # None
       THEN /\ verifiableCredential' =
                   Some([id |-> credentialId[1], proof |-> "valid"])
            /\ ipc' = "uploadVC"
            /\ UNCHANGED <<credentialId, studentDID, ipfsResult, vcIpfsResult,
                           iresponse>>
       ELSE IssueFails("Failed to issue credential")
    /\ UNCHANGED <<now, crVars, contractServiceState, usedUuids, didStore,
                   ipfsPinned, txSent, ireq>>

\* await ipfsService.uploadCredentialMetadata(vcMetadata) settles; without a
\* ready contract service the handler runs on to its 201 response
IssueVcUploadReturns(outcome) ==
    /\ ipc = "uploadVC"
    /\ ihist' = [ihist EXCEPT !.awaits = @ + 1,
           !.succeeded = IF outcome = "ok" THEN @ \cup {"vcUpload"} ELSE @]
    /\ IF outcome = "ok"
       THEN /\ ipfsPinned' = ipfsPinned \cup {VcCid(credentialId[1])}
            /\ IF contractServiceState # "not ready"
               THEN /\ vcIpfsResult' = Some(VcCid(credentialId[1]))
                    /\ ipc' = "blockchain"
                    /\ UNCHANGED <<credentialId, studentDID, ipfsResult,
                                   verifiableCredential, iresponse>>
               ELSE /\ iresponse' = IssueReceipt(credentialId[1],
                                      verifiableCredential[1], ipfsResult[1],
                                      VcCid(credentialId[1]), None)
                    /\ IssueLocalsDropped
                    /\ ipc' = "done"
       ELSE /\ IssueFails(outcome)
            /\ UNCHANGED ipfsPinned
    /\ UNCHANGED <<now, crVars, contractServiceState, usedUuids, didStore,
                   txSent, ireq>>

\* how the transaction fares on its way: sent and its receipt awaited, lost
\* to a transport error before it is sent, or mined while tx.wait() fails
ChainOutcomes == RpcOutcomes \cup {"mined, receipt lost"}

\* await contractService.issueCredential(...) settles: mined, or thrown and
\* swallowed by the handler's catch; then the 201 response
IssueChainReturns(rpc) ==
    /\ ipc = "blockchain"
    /\ LET vcIdHash == hashCredentialId(credentialId[1])
           expirationTimestamp == ExpirationTimestamp(ireq.expirationDate)
           subject == IF Falsy(ireq.studentWallet) THEN ZeroAddress
                      ELSE ireq.studentWallet
           mined == /\ contractServiceState = "signer"
                    /\ REGISTRY_ADDRESS => deployedRegistry = "CredentialRegistry"
                    /\ rpc \in {"ok", "mined, receipt lost"}
                    /\ expirationTimestamp # None
                    /\ CredentialRegistry_issueCredential_Requires(
                           ServerWallet, vcIdHash, vcIpfsResult[1],
                           ireq.credentialType, expirationTimestamp[1])
           blockchainResult_ == IF mined /\ rpc = "ok"
                                THEN Some([credentialHash |-> vcIdHash])
                                ELSE None
       IN /\ IF mined
             THEN /\ CredentialRegistry_issueCredential(
                         ServerWallet, vcIdHash, subject, vcIpfsResult[1],
                         ireq.credentialType, expirationTimestamp[1])
                  /\ txSent' = txSent + 1
             ELSE UNCHANGED <<now, crVars, txSent>>
          /\ iresponse' = IssueReceipt(credentialId[1], verifiableCredential[1],
                             ipfsResult[1], vcIpfsResult[1], blockchainResult_)
          /\ ihist' = [ihist EXCEPT !.awaits = @ + 1,
                          !.chain = IF ~mined THEN "rejected"
                                    ELSE IF rpc = "ok" THEN "mined"
                                    ELSE "receipt lost"]
    /\ IssueLocalsDropped
    /\ ipc' = "done"
    /\ UNCHANGED <<contractServiceState, usedUuids, didStore, ipfsPinned, ireq>>

(***************************************************************************)
(* POST /api/credentials/batch-issue  (server/routes/credentials.js), for  *)
(* a request that has passed requireInstitution.                           *)
(***************************************************************************)
\* an entry of the students array: null, or an object whose email and name
\* are present or not
StudentObjects == [email : {Absent, "a@uni.edu", "c@uni.edu"},
                   name : {Absent, "Ann Lee"}]
BatchEntries == {None} \cup {Some(o) : o \in StudentObjects}
\* students: None when the body has no array there
BatchBodies ==
    {None} \cup {Some(l) : l \in UNION {[1..n -> BatchEntries] : n \in 0..MaxBatch}}

\* the fields an entry needs to be issued
EntryComplete(entry) ==
    entry # None /\ entry[1].email # Absent /\ entry[1].name # Absent

\* studentData.email; reading it off null throws a TypeError
ReadEmailThrows(entry) == entry = None
StudentEmailOf(entry) ==
    IF entry[1].email = Absent THEN Undefined ELSE entry[1].email

\* `cred-${uuidv4()}`, the n-th id drawn for this batch
BatchCredentialId(n) == "cred-batch-" \o ToString(n)

NoBatchResponse ==
    [status |-> 0, success |-> FALSE, error |-> "", totalProcessed |-> None,
     results |-> None, errors |-> None]

BatchBadRequest ==
    [NoBatchResponse EXCEPT !.status = 400, !.error = "Students array is required"]

BatchErrorResponse(message) ==
    [NoBatchResponse EXCEPT !.status = ErrorHandlerStatus(message),
                            !.error = message]

BatchReport(students, results, errors) ==
    [status |-> 200, success |-> TRUE, error |-> "",
     totalProcessed |-> Some(Len(students)), results |-> Some(results),
     errors |-> Some(errors)]

BatchInit ==
    /\ bpc = "idle"
    /\ breq = None
    /\ bresults = <<>>
    /\ berrors = <<>>
    /\ bresponse = NoBatchResponse

\* a request arrives: 400 unless students is a non-empty array
BatchBegin(students) ==
    /\ bpc \in {"idle", "done"}
    /\ breq' = students
    /\ bresults' = <<>>
    /\ berrors' = <<>>
    /\ IF students = None \/ students = Some(<<>>)
       THEN /\ bresponse' = BatchBadRequest
            /\ bpc' = "done"
       ELSE /\ bresponse' = NoBatchResponse
            /\ bpc' = "loop"

\* one turn of the for-of loop: the entry is pushed to results; if reading
\* its email throws, the catch block reads it again, throws out of the loop
\* and the handler's outer catch hands the error to next()
BatchEntry ==
    /\ bpc = "loop"
    /\ LET students == breq[1]
           i == Len(bresults) + Len(berrors) + 1
           studentData == students[i]
           results == Append(bresults,
                         [studentEmail |-> StudentEmailOf(studentData),
                          credentialId |-> BatchCredentialId(i),
                          status |-> "success"])
       IN IF ReadEmailThrows(studentData)
          THEN /\ bresponse' = BatchErrorResponse(
                                   "Cannot read properties of null (reading 'email')")
               /\ bpc' = "done"
               /\ UNCHANGED <<bresults, berrors>>
          ELSE /\ bresults' = results
               /\ UNCHANGED berrors
               /\ IF i = Len(students)
                  THEN /\ bresponse' = BatchReport(students, results, berrors)
                       /\ bpc' = "done"
                  ELSE UNCHANGED <<bpc, bresponse>>
    /\ UNCHANGED breq

(***************************************************************************)
(* IPFSService.addFile and IPFSService.getFile  (unnamed/part_004).        *)
(***************************************************************************)
\* the byte strings stored and asked for: a, ab, aba, ... and the empty one
FileContents ==
    {[i \in 1..n |-> IF i % 2 = 1 THEN "a" ELSE "b"] : n \in 0..MaxFileLen}

\* result.cid.toString(): the content's address
RECURSIVE Hex(_)
Hex(bytes) == IF bytes = <<>> THEN "" ELSE Head(bytes) \o Hex(Tail(bytes))
CidOf(bytes) == "bafy" \o Hex(bytes)

\* cid arguments: none, or the address of some content
CidInputs == {""} \cup {CidOf(b) : b \in FileContents}
\* options.maxSize; 0 also stands for an option that is not given
MaxSizeInputs == 0..MaxFileLen
\* what the stream can throw instead of delivering
StreamErrors == {"request timeout", "block not found", "socket hang up"}

DefaultMaxSize == 50 * 1024 * 1024

\* options.maxSize || 50 * 1024 * 1024
EffectiveMaxSize(option) == IF option = 0 THEN DefaultMaxSize ELSE option

\* faulty variant: the limit itself already counts as too large
ExceedsMaxSize_AtLimit(total, limit) == total >= limit

\* totalSize > maxSize
ExceedsMaxSize(total, limit) == total > limit

\* Buffer.concat(chunks)
RECURSIVE BufferConcat(_)
BufferConcat(list) ==
    IF list = <<>> THEN <<>> ELSE Head(list) \o BufferConcat(Tail(list))

TooLargeMessage(limit) ==
    "File too large. Maximum size: " \o ToString(limit) \o " bytes"

\* the catch block of getFile: the message of the error it throws
GetFileError(message) ==
    IF message = "request timeout"
    THEN "IPFS request timeout. The content might not be available."
    ELSE IF message = "block not found"
         THEN "Content not found on IPFS network."
         ELSE "Failed to retrieve file from IPFS: " \o message

NoFileResult == [settled |-> FALSE, buffer |-> None, error |-> ""]
FileReturned(buffer) == [settled |-> TRUE, buffer |-> Some(buffer), error |-> ""]
FileThrown(message) == [settled |-> TRUE, buffer |-> None, error |-> message]

FileInit(clients) ==
    /\ client \in clients
    /\ ipfsBlocks = {}
    /\ gpc = "idle"
    /\ gcid = ""
    /\ maxSize = DefaultMaxSize
    /\ stream = None
    /\ chunks = <<>>
    /\ totalSize = 0
    /\ gresult = NoFileResult
    /\ fileExistsResult = "none"

\* addFile with a Buffer: the bytes are pinned under their address unless
\* the client is missing or client.add fails
addFile(data, added) ==
    /\ ipfsBlocks' = IF client /\ added THEN ipfsBlocks \cup {data} ELSE ipfsBlocks
    /\ UNCHANGED <<client, gpc, gcid, maxSize, stream, chunks, totalSize, gresult>>

\* getFile up to the first read of the stream
getFile(cid, option) ==
    /\ gpc \in {"idle", "done"}
    /\ gcid' = cid
    /\ chunks' = <<>>
    /\ totalSize' = 0
    /\ maxSize' = EffectiveMaxSize(option)
    /\ IF ~client
       THEN /\ gresult' = FileThrown("IPFS client not initialized")
            /\ gpc' = "done"
            /\ stream' = None
       ELSE IF cid = ""
            THEN /\ gresult' = FileThrown("CID is required")
                 /\ gpc' = "done"
                 /\ stream' = None
            ELSE /\ gresult' = NoFileResult
                 /\ gpc' = "streaming"
                 /\ stream' = IF \E b \in ipfsBlocks : CidOf(b) = cid
                              THEN Some(CHOOSE b \in ipfsBlocks : CidOf(b) = cid)
                              ELSE None
    /\ UNCHANGED <<client, ipfsBlocks>>

\* the stream throws: the cid is not held anywhere, or the transfer fails
getFile_StreamThrows(message) ==
    /\ gpc = "streaming"
    /\ gresult' = FileThrown(GetFileError(message))
    /\ gpc' = "done"
    /\ UNCHANGED <<client, ipfsBlocks, gcid, maxSize, stream, chunks, totalSize>>

\* one turn of the for-await loop over a chunk of n bytes
getFile_Chunk(n) ==
    /\ gpc = "streaming"
    /\ stream # None
    /\ n \in 1..Len(stream[1])
    /\ LET chunk == SubSeq(stream[1], 1, n)
       IN /\ totalSize' = totalSize + Len(chunk)
          /\ stream' = Some(SubSeq(stream[1], n + 1, Len(stream[1])))
          /\ IF ExceedsMaxSize(totalSize + Len(chunk), maxSize)
             THEN /\ gresult' = FileThrown(GetFileError(TooLargeMessage(maxSize)))
                  /\ gpc' = "done"
                  /\ UNCHANGED chunks
             ELSE /\ chunks' = Append(chunks, chunk)
                  /\ UNCHANGED <<gresult, gpc>>
    /\ UNCHANGED <<client, ipfsBlocks, gcid, maxSize>>

\* the stream ends: the chunks are concatenated and returned
getFile_StreamEnds ==
    /\ gpc = "streaming"
    /\ stream = Some(<<>>)
    /\ gresult' = FileReturned(BufferConcat(chunks))
    /\ gpc' = "done"
    /\ UNCHANGED <<client, ipfsBlocks, gcid, maxSize, stream, chunks, totalSize>>

\* fileExists up to its await: getFile(cid, { maxSize: 1 }); a getFile that
\* throws at once is caught at once
fileExists(cid) ==
    /\ getFile(cid, 1)
    /\ fileExistsResult' = IF gpc' = "done" THEN "false" ELSE "pending"

\* the rest of fileExists, run when the getFile it awaits settles: true when
\* a buffer came back, false from the catch block
fileExists_Settles ==
    fileExistsResult' =
        IF fileExistsResult = "pending" /\ gpc' = "done"
        THEN IF gresult'.buffer # None THEN "true" ELSE "false"
        ELSE fileExistsResult

(***************************************************************************)
(* Spec: the verification handler and the registry it reads.               *)
(***************************************************************************)
CvRegister ==
    /\ \E s \in InstitutionAccounts : CredVerse_registerInstitution(s, "Sample University", "did:ethr:inst")
    /\ UNCHANGED <<configVars, serverVars, crVars>>

CvVerify ==
    /\ \E s \in Addresses, i \in InstitutionAccounts, v \in BOOLEAN :
          CredVerse_verifyInstitution(s, i, v)
    /\ UNCHANGED <<configVars, serverVars, crVars>>

CvIssue ==
    /\ \E s \in Addresses, id \in IssuableIds, r \in Recipients, h \in IpfsHashes,
          t \in CredentialTypes, e \in ExpiryInputs :
          CredVerse_issueCredential(s, id, r, h, t, e)
    /\ UNCHANGED <<configVars, serverVars, crVars>>

CvRevoke ==
    /\ \E s \in Addresses, id \in CredentialIds, r \in Reasons :
          CredVerse_revokeCredential(s, id, r)
    /\ UNCHANGED <<configVars, serverVars, crVars>>

CvPause ==
    /\ \E s \in Addresses : CredVerse_pause(s)
    /\ UNCHANGED <<configVars, serverVars, crVars>>

CvUnpause ==
    /\ \E s \in Addresses : CredVerse_unpause(s)
    /\ UNCHANGED <<configVars, serverVars, crVars>>

CvTick ==
    /\ Tick
    /\ UNCHANGED <<cvVars, configVars, serverVars, crVars>>

VerifyRequest ==
    /\ \E id \in CredentialIds, q \in QueryValues : VerifyBegin(id, q)
    /\ UNCHANGED <<crVars, docVars, presVars, issueVars, batchVars, fileVars>>

VerifyRead1 ==
    /\ \E rpc \in RpcOutcomes : VerifyCredentialReturns(rpc)
    /\ UNCHANGED <<crVars, docVars, presVars, issueVars, batchVars, fileVars>>

VerifyRead2 ==
    /\ \E rpc \in RpcOutcomes, conv \in ConversionOutcomes :
          GetCredentialReturns(rpc, conv)
    /\ UNCHANGED <<crVars, docVars, presVars, issueVars, batchVars, fileVars>>

VerifyFetch ==
    /\ \E o \in IpfsOutcomes : IpfsReturns(o)
    /\ UNCHANGED <<crVars, docVars, presVars, issueVars, batchVars, fileVars>>

Init ==
    /\ CvInit
    /\ REGISTRY_ADDRESS \in BOOLEAN
    /\ deployedRegistry = "CredVerseRegistry"
    /\ VerifyInit
    /\ CrInit
    /\ DocInit
    /\ PresInit
    /\ contractServiceState = "signer"
    /\ IssueInit
    /\ BatchInit
    /\ FileInit({TRUE})

Next ==
    \/ CvRegister
    \/ CvVerify
    \/ CvIssue
    \/ CvRevoke
    \/ CvPause
    \/ CvUnpause
    \/ CvTick
    \/ VerifyRequest
    \/ VerifyRead1
    \/ VerifyRead2
    \/ VerifyFetch

Spec == Init /\ [][Next]_vars

(***************************************************************************)
(* Properties of GET /api/verify/:credentialId, checked under Spec.        *)
(***************************************************************************)
VerifyDone == vpc = "done"
VerdictReturned == vpc = "done" /\ vresponse.status = 200
ZeroTuple == [isValid |-> FALSE, isExpired |-> FALSE, isRevoked |-> FALSE]
IpfsFailures == IpfsOutcomes \ {"ok"}

\* C1: every verdict's overallValid is isValid AND NOT isExpired AND NOT
\* isRevoked, the three being exactly what the blockchain lookup returned, or
\* false when the lookup (both reads) did not succeed; the content-store
\* fetch has no say in it.
C1_OverallValidFromChain ==
    VerdictReturned =>
        LET b == IF vhist.lookup = "ok" THEN blockchainResult[1] ELSE ZeroTuple IN
        /\ verificationResult.isValid = b.isValid
        /\ verificationResult.isExpired = b.isExpired
        /\ verificationResult.isRevoked = b.isRevoked
        /\ vresponse.overallValid = Some(b.isValid /\ ~b.isExpired /\ ~b.isRevoked)

\* C1 witness: a verdict of valid although the content-store fetch failed
C1_Witness ==
    /\ VerdictReturned
    /\ vhist.lookup = "ok"
    /\ vhist.fetch \in IpfsFailures
    /\ vresponse.overallValid = Some(TRUE)

C3_UnreachableChainNeverValid ==
    (VerifyDone /\ vhist.lookup = "rpcerror") =>
        /\ vresponse.status = 200
        /\ vresponse.success
        /\ ~verificationResult.blockchain.verified
        /\ verificationResult.blockchain.error \in RpcErrors
        /\ ~verificationResult.isValid
        /\ ~verificationResult.isExpired
        /\ ~verificationResult.isRevoked
        /\ vresponse.overallValid = Some(FALSE)

\* C3 witness: the first read returned a valid credential, the second read
\* failed in transport
C3_Witness ==
    /\ VerifyDone
    /\ vhist.lookup = "rpcerror"
    /\ blockchainResult # None
    /\ blockchainResult[1].isValid
    /\ ~blockchainResult[1].isExpired
    /\ ~blockchainResult[1].isRevoked

\* C4: when the content-store fetch fails, the verdict has ipfs.verified =
\* false and ipfs.error set, and its blockchain part, isValid, isExpired,
\* isRevoked and overallValid are those of the run in which the fetch succeeds.
C4_FetchFailureLeavesVerdict ==
    (VerifyDone /\ vhist.fetch \in IpfsFailures) =>
        LET okRun == OnIpfsSuccess(vhist.beforeFetch[1],
                                   [document |-> credential[1].ipfsHash]) IN
        /\ ~verificationResult.ipfs.verified
        /\ verificationResult.ipfs.error # Undefined
        /\ verificationResult.ipfs.metadata = None
        /\ okRun.ipfs.verified
        /\ verificationResult.blockchain = okRun.blockchain
        /\ verificationResult.blockchain.verified
        /\ verificationResult.isValid = okRun.isValid
        /\ verificationResult.isExpired = okRun.isExpired
        /\ verificationResult.isRevoked = okRun.isRevoked
        /\ verificationResult.isValid = blockchainResult[1].isValid
        /\ vresponse = VerdictResponse(okRun)

\* C4 witness: the fetch timed out for a credential the chain reports valid
C4_Witness ==
    /\ VerifyDone
    /\ vhist.fetch = "timeout"
    /\ vreq.includeMetadata = "true"
    /\ vresponse.overallValid = Some(TRUE)

\* C5 as stated: every verify begun after revoke succeeded returns isRevoked =
\* true and overallValid = false (taken for the deployments that have a
\* registry address configured).
C5_Original ==
    (VerifyDone /\ REGISTRY_ADDRESS /\ vhist.startRevoked) =>
        /\ vresponse.status = 200
        /\ verificationResult.isRevoked
        /\ vresponse.overallValid = Some(FALSE)

\* C5 amended: the on-chain revoked flag of a revoked credential stays true,
\* and every verify begun after the revocation returns a verdict with
\* overallValid = false; the verdict has isRevoked = true whenever its
\* blockchain lookup succeeded, and otherwise carries isRevoked = false
\* together with blockchain.verified = false and blockchain.error.
C5_RevokedStaysInvalid ==
    /\ \A id \in cvEverRevoked :
          cvCredentialExists[id] /\ cvCredentials[id].isRevoked
    /\ (VerifyDone /\ vhist.startRevoked) =>
          /\ vresponse.status = 200
          /\ vresponse.overallValid = Some(FALSE)
          /\ verificationResult.blockchain.verified => verificationResult.isRevoked
          /\ ~verificationResult.blockchain.verified =>
                /\ verificationResult.blockchain.error # Undefined
                /\ ~verificationResult.isRevoked

\* C5 witness: a verify begun after the revocation, the issuer still verified,
\* the registry paused since: isRevoked alone makes the verdict invalid
C5_Witness ==
    /\ VerifyDone
    /\ vhist.startRevoked
    /\ cvPaused
    /\ verificationResult.blockchain.verified
    /\ verificationResult.isValid
    /\ ~verificationResult.isExpired
    /\ verificationResult.isRevoked
    /\ vresponse.overallValid = Some(FALSE)

\* C6 as stated: verify of a credential that exists, is not revoked, is not
\* expired and whose issuer is verified and active (when the request begins
\* and still when it ends) returns overallValid = true (taken for the
\* deployments that have a registry address configured).
C6_Original ==
    (VerifyDone /\ REGISTRY_ADDRESS /\ vhist.startEligible
        /\ Eligible(vreq.credentialId))
        => vresponse.overallValid = Some(TRUE)

\* C6 amended: a verify whose blockchain lookup succeeded returns overallValid
\* = true for every credential that, when the validity tuple was read,
\* existed, was not revoked, was not expired and had a verified and active
\* issuer.
C6_EligibleIsValid ==
    (VerifyDone /\ vhist.lookup = "ok" /\ vhist.readEligible) =>
        /\ vresponse.status = 200
        /\ verificationResult.blockchain.verified
        /\ vresponse.overallValid = Some(TRUE)

\* C6 witness: an eligible credential with an expiry date still ahead
C6_Witness ==
    /\ VerifyDone
    /\ vhist.lookup = "ok"
    /\ vhist.readEligible
    /\ credential[1].expiresAt > 0
    /\ vresponse.overallValid = Some(TRUE)

(***************************************************************************)
(* SpecRegistry: CredentialRegistry on its own, every account sending any  *)
(* transaction at any time.                                                *)
(***************************************************************************)
CrFrame == UNCHANGED <<cvVars, configVars, serverVars>>

CrRegister ==
    /\ \E s \in CrInstitutionAccounts :
          CredentialRegistry_registerInstitution(s, "Sample University", "did:ethr:inst")
    /\ CrFrame

CrVerify ==
    /\ \E s \in CrAccounts, i \in CrInstitutionAccounts, v \in BOOLEAN :
          CredentialRegistry_verifyInstitution(s, i, v)
    /\ CrFrame

CrIssue ==
    /\ \E s \in CrAccounts, h \in VcIds \cup {ZeroHash}, subj \in Subjects,
          cid \in CrIpfsHashes, t \in CredentialTypes, e \in CrExpiryInputs :
          CredentialRegistry_issueCredential(s, h, subj, cid, t, e)
    /\ CrFrame

CrRevoke ==
    /\ \E s \in CrAccounts, h \in VcIds, r \in CrReasons :
          CredentialRegistry_revokeCredential(s, h, r)
    /\ CrFrame

CrPause ==
    /\ \E s \in CrAccounts : CredentialRegistry_pause(s)
    /\ CrFrame

CrUnpause ==
    /\ \E s \in CrAccounts : CredentialRegistry_unpause(s)
    /\ CrFrame

CrDeactivate ==
    /\ \E s \in CrAccounts, i \in CrInstitutionAccounts :
          CredentialRegistry_deactivateInstitution(s, i)
    /\ CrFrame

CrTick ==
    /\ Tick
    /\ UNCHANGED crVars
    /\ CrFrame

NextRegistry ==
    \/ CrRegister
    \/ CrVerify
    \/ CrIssue
    \/ CrRevoke
    \/ CrPause
    \/ CrUnpause
    \/ CrDeactivate
    \/ CrTick

InitRegistry ==
    /\ CvInit
    /\ REGISTRY_ADDRESS = TRUE
    /\ deployedRegistry = "CredentialRegistry"
    /\ VerifyInit
    /\ CrInit
    /\ DocInit
    /\ PresInit
    /\ contractServiceState = "signer"
    /\ IssueInit
    /\ BatchInit
    /\ FileInit({TRUE})

SpecRegistry == InitRegistry /\ [][NextRegistry]_vars

\* the verdict reduction applied to the registry's validity tuple
TupleOverallValid(t) == t.isValid /\ ~t.isExpired /\ ~t.isRevoked

\* C7: a credential whose expiresAt is non-zero and in the past is reported
\* isExpired = true by CredentialRegistry.isValid, revoked or not, with
\* isValid = false and overallValid = false; expiresAt = 0 is never expired.
C7_ExpiredReportedExpired ==
    \A h \in VcIds :
        crCredentialExists[h] =>
            LET c == crCredentials[h]
                r == CredentialRegistry_isValid(h)
            IN /\ r.ok
               /\ (c.expiresAt # 0 /\ c.expiresAt < now) =>
                     /\ r.value[1].isExpired
                     /\ ~r.value[1].isValid
                     /\ ~TupleOverallValid(r.value[1])
               /\ c.expiresAt = 0 => ~r.value[1].isExpired

\* C7 witness: one credential past its expiry and revoked as well, another
\* that never expires, both issued by a verified and active institution
C7_Witness ==
    \E h, g \in VcIds :
        /\ crCredentialExists[h] /\ crCredentialExists[g]
        /\ crCredentials[h].expiresAt # 0
        /\ crCredentials[h].expiresAt < now
        /\ crCredentials[h].revoked
        /\ crInstitutions[crCredentials[h].issuer].verified
        /\ crInstitutions[crCredentials[h].issuer].active
        /\ crCredentials[g].expiresAt = 0
        /\ now > 0

(***************************************************************************)
(* SpecDocument: POST /api/verify/credential beside the registry it reads. *)
(***************************************************************************)
DocFrame ==
    UNCHANGED <<crVars, verifyVars, presVars, issueVars, batchVars, fileVars>>

DocRequest ==
    /\ \E body \in {None} \cup {Some(d) : d \in Documents} : DocBegin(body)
    /\ DocFrame

DocVeramo ==
    /\ DocVeramoReturns
    /\ DocFrame

DocLookup ==
    /\ \E rpc \in RpcOutcomes : DocLookupReturns(rpc)
    /\ DocFrame

NextDocument ==
    \/ CvRegister
    \/ CvVerify
    \/ CvIssue
    \/ CvRevoke
    \/ CvPause
    \/ CvUnpause
    \/ CvTick
    \/ DocRequest
    \/ DocVeramo
    \/ DocLookup

SpecDocument == Init /\ [][NextDocument]_vars

DocDone == dpc = "done"

\* C8 as stated: every verdict of POST /verify/credential has overallValid =
\* true exactly when the document's proof verifies and either there is no
\* on-chain record for the document's credential id or the on-chain check
\* reports the credential valid, and a failed proof yields overallValid =
\* false (taken for deployments with a registry address configured and for
\* lookups the transport did not fail).
C8_DocumentVerdictAsStated ==
    (DocDone /\ dresponse.status = 200 /\ REGISTRY_ADDRESS
        /\ dhist.lookup # "rpcerror") =>
        LET proofValid == dreq[1].proof = "valid"
            noOnChainRecord == dreq[1].id = Absent \/ ~dhist.recordAtRead
            onChainValid == /\ dhist.lookup = "ok"
                            /\ blockchainVerification[1].isValid = Some(TRUE)
        IN /\ (dresponse.overallValid = Some(TRUE))
                  <=> (proofValid /\ (noOnChainRecord \/ onChainValid))
           /\ ~proofValid => dresponse.overallValid = Some(FALSE)

(***************************************************************************)
(* SpecPresentation: POST /api/verify/presentation beside the registry.    *)
(***************************************************************************)
PresFrame ==
    UNCHANGED <<crVars, verifyVars, docVars, issueVars, batchVars, fileVars>>

PresRequest ==
    /\ \E body \in {None} \cup {Some(vp) : vp \in Presentations} : PresBegin(body)
    /\ PresFrame

PresVeramo ==
    /\ PresVeramoReturns
    /\ PresFrame

PresCredential ==
    /\ PresCredentialReturns
    /\ PresFrame

NextPresentation ==
    \/ CvRegister
    \/ CvVerify
    \/ CvIssue
    \/ CvRevoke
    \/ PresRequest
    \/ PresVeramo
    \/ PresCredential

SpecPresentation == Init /\ [][NextPresentation]_vars

PresDone == ppc = "done"

\* C9 as stated: every verdict of POST /verify/presentation has overallValid
\* = true exactly when the presentation's own proof verifies and every
\* embedded credential passes both its proof check and the on-chain
\* cross-check of its credential id (taken for deployments with a registry
\* address configured).
C9_PresentationVerdictAsStated ==
    (PresDone /\ presponse.status = 200 /\ REGISTRY_ADDRESS) =>
        LET embedded == IF preq[1].verifiableCredential = None THEN <<>>
                        ELSE preq[1].verifiableCredential[1]
        IN presponse.overallValid =
              Some(/\ preq[1].proof = "valid"
                   /\ \A i \in 1..Len(embedded) : embedded[i].proof = "valid"
                   /\ phist.allOnChainAccepted)

(***************************************************************************)
(* SpecIssue: POST /api/credentials/issue beside CredentialRegistry, whose *)
(* admin verifies institutions and pauses the registry at any time.        *)
(***************************************************************************)
IssueFrame ==
    UNCHANGED <<cvVars, configVars, verifyVars, docVars, presVars, batchVars,
                fileVars>>

IssueRequest ==
    /\ \E body \in IssueBodies, uuid \in Uuids : IssueBegin(body, uuid)
    /\ IssueFrame

IssueDid ==
    /\ \E o \in {"ok", "fails"} : IssueDidReturns(o)
    /\ IssueFrame

IssueMetadataUpload ==
    /\ \E o \in {"ok", "IPFS client not initialized", "IPFS upload failed"} :
          IssueMetadataUploadReturns(o)
    /\ IssueFrame

IssueVc ==
    /\ \E o \in {"ok", "fails"} : IssueVcReturns(o)
    /\ IssueFrame

IssueVcUpload ==
    /\ \E o \in {"ok", "IPFS client not initialized", "IPFS upload failed"} :
          IssueVcUploadReturns(o)
    /\ IssueFrame

IssueChain ==
    /\ \E rpc \in ChainOutcomes : IssueChainReturns(rpc)
    /\ IssueFrame

NextIssue ==
    \/ CrRegister
    \/ CrVerify
    \/ CrPause
    \/ CrUnpause
    \/ IssueRequest
    \/ IssueDid
    \/ IssueMetadataUpload
    \/ IssueVc
    \/ IssueVcUpload
    \/ IssueChain

InitIssue ==
    /\ CvInit
    /\ REGISTRY_ADDRESS = TRUE
    /\ deployedRegistry = "CredentialRegistry"
    /\ VerifyInit
    /\ CrInit
    /\ DocInit
    /\ PresInit
    /\ contractServiceState \in ContractServiceStates
    /\ IssueInit
    /\ BatchInit
    /\ FileInit({TRUE})

SpecIssue == InitIssue /\ [][NextIssue]_vars

IssueDone == ipc = "done"

\* C10: an issue request in which studentName, studentEmail or
\* credentialType is missing ends with HTTP 400 before any side effect: the
\* handler has awaited nothing, no DID has been created, nothing has been
\* pinned to the content store and no transaction has been sent.
C10_MissingFieldRejectedFirst ==
    (IssueDone /\ (\/ Falsy(ireq.studentName)
                   \/ Falsy(ireq.studentEmail)
                   \/ Falsy(ireq.credentialType))) =>
        /\ iresponse.status = 400
        /\ ~iresponse.success
        /\ ihist.awaits = 0
        /\ didStore = ihist.dids
        /\ ipfsPinned = ihist.pinned
        /\ txSent = ihist.tx

\* C10 witness: after one credential was issued and anchored, a request
\* without studentEmail is rejected
C10_Witness ==
    /\ IssueDone
    /\ ireq.studentEmail = Absent
    /\ ireq.studentName = "Ann Lee"
    /\ ireq.credentialType = "Diploma"
    /\ iresponse.status = 400
    /\ txSent = 1
    /\ didStore # {}
    /\ ipfsPinned # {}

IssueSteps == {"did", "metadata", "vc", "vcUpload"}

\* C11: the call to contractService.issueCredential is made only after the
\* DID, both content-store writes and the signed document have been obtained;
\* a request in which one of those steps failed ends with an error status,
\* carries no receipt, and for it no on-chain write was attempted or mined.
C11_ChainWriteLast ==
    /\ (ipc = "blockchain" \/ ihist.chain # "none") =>
          ihist.succeeded = IssueSteps
    /\ (IssueDone /\ ~MissingRequiredFields(ireq)
            /\ ihist.succeeded # IssueSteps) =>
          /\ iresponse.status \in {500, 503}
          /\ ~iresponse.success
          /\ iresponse.credentialId = None
          /\ iresponse.verifiableCredential = None
          /\ ihist.chain = "none"
          /\ txSent = ihist.tx

\* C11 witness: proof creation failed after the DID and the metadata write
\* succeeded, with a signer ready to send
C11_Witness ==
    /\ IssueDone
    /\ contractServiceState = "signer"
    /\ ihist.succeeded = {"did", "metadata"}
    /\ ihist.awaits = 3
    /\ iresponse.status = 500

\* C12: when every step before the blockchain registration succeeded, issue
\* answers 201 with the credentialId, the signed document and the cid of the
\* stored document, which is pinned; its blockchain field is null whenever
\* the registration failed or was not attempted, and is non-null only if the
\* credential was written on-chain for this request.
C12_ReceiptWithoutAnchor ==
    (IssueDone /\ ihist.succeeded = IssueSteps) =>
        /\ iresponse.status = 201
        /\ iresponse.success
        /\ iresponse.credentialId # None
        /\ iresponse.verifiableCredential =
              Some([id |-> iresponse.credentialId[1], proof |-> "valid"])
        /\ iresponse.vcCid = Some(VcCid(iresponse.credentialId[1]))
        /\ iresponse.vcCid[1] \in ipfsPinned
        /\ ihist.chain \in {"none", "rejected"} => iresponse.blockchain = None
        /\ ihist.chain = "none" <=> contractServiceState = "not ready"
        /\ iresponse.blockchain # None =>
              /\ ihist.chain = "mined"
              /\ txSent = ihist.tx + 1
              /\ crCredentialExists[hashCredentialId(iresponse.credentialId[1])]
              /\ iresponse.blockchain[1].credentialHash =
                    hashCredentialId(iresponse.credentialId[1])

\* C12 witness: the contract rejected the write (institution not verified)
\* and the receipt came back without an anchor
C12_Witness ==
    /\ IssueDone
    /\ contractServiceState = "signer"
    /\ ihist.chain = "rejected"
    /\ iresponse.status = 201
    /\ iresponse.blockchain = None
    /\ iresponse.vcCid # None

(***************************************************************************)
(* SpecBatch: POST /api/credentials/batch-issue.                           *)
(***************************************************************************)
BatchFrame ==
    UNCHANGED <<chainVars, configVars, crVars, verifyVars, docVars,
                presVars, issueVars, fileVars>>

BatchRequest ==
    /\ \E students \in BatchBodies : BatchBegin(students)
    /\ BatchFrame

BatchLoop ==
    /\ BatchEntry
    /\ BatchFrame

NextBatch ==
    \/ BatchRequest
    \/ BatchLoop

SpecBatch == InitIssue /\ [][NextBatch]_vars

BatchDone == bpc = "done"

\* C13 as stated: for every non-empty students array the response lists
\* every entry in exactly one of results or errors, results.length +
\* errors.length being the number of entries, whatever the entries' shape.
C13_EveryEntryAccountedFor ==
    (BatchDone /\ breq # None /\ breq # Some(<<>>)) =>
        /\ bresponse.status = 200
        /\ bresponse.results # None
        /\ bresponse.errors # None
        /\ Len(bresponse.results[1]) + Len(bresponse.errors[1]) = Len(breq[1])

\* C14 as stated: in a batch of objects, the entries that lack a required
\* field are the ones reported in errors, and the complete entries are the
\* ones reported in results.
C14_IncompleteEntriesInErrors ==
    (BatchDone /\ breq # None /\ breq # Some(<<>>)
        /\ \A i \in 1..Len(breq[1]) : breq[1][i] # None) =>
        /\ bresponse.status = 200
        /\ Len(bresponse.results[1]) =
              Cardinality({i \in 1..Len(breq[1]) : EntryComplete(breq[1][i])})
        /\ Len(bresponse.errors[1]) =
              Cardinality({i \in 1..Len(breq[1]) : ~EntryComplete(breq[1][i])})

(***************************************************************************)
(* SpecFile: the content store's addFile and getFile.                      *)
(***************************************************************************)
FileFrame ==
    UNCHANGED <<chainVars, configVars, crVars, verifyVars, docVars,
                presVars, issueVars, batchVars>>

FileAdd ==
    /\ \E data \in FileContents, added \in BOOLEAN : addFile(data, added)
    /\ UNCHANGED fileExistsResult
    /\ FileFrame

FileGet ==
    /\ \E cid \in CidInputs, option \in MaxSizeInputs : getFile(cid, option)
    /\ fileExistsResult' = "none"
    /\ FileFrame

FileExists ==
    /\ \E cid \in CidInputs : fileExists(cid)
    /\ FileFrame

FileStreamThrows ==
    /\ \E message \in StreamErrors : getFile_StreamThrows(message)
    /\ fileExists_Settles
    /\ FileFrame

FileChunk ==
    /\ \E n \in 1..MaxFileLen : getFile_Chunk(n)
    /\ fileExists_Settles
    /\ FileFrame

FileStreamEnds ==
    /\ getFile_StreamEnds
    /\ fileExists_Settles
    /\ FileFrame

NextFile ==
    \/ FileAdd
    \/ FileGet
    \/ FileExists
    \/ FileStreamThrows
    \/ FileChunk
    \/ FileStreamEnds

InitFile ==
    /\ CvInit
    /\ REGISTRY_ADDRESS = TRUE
    /\ deployedRegistry = "CredentialRegistry"
    /\ VerifyInit
    /\ CrInit
    /\ DocInit
    /\ PresInit
    /\ contractServiceState = "signer"
    /\ IssueInit
    /\ BatchInit
    /\ FileInit(BOOLEAN)

SpecFile == InitFile /\ [][NextFile]_vars

\* the bytes stored under the cid asked for
StoredUnder(cid) == {b \in ipfsBlocks : CidOf(b) = cid}

\* C15: getFile returns the complete bytes stored under the cid or throws,
\* never a part of them; the bytes are returned when the stream completes
\* and their size is at most maxSize; the call throws "File too large" on
\* the first chunk that takes the running total above maxSize, and reads
\* nothing after that chunk.
C15_CompleteOrError ==
    /\ gpc = "streaming" => ~ExceedsMaxSize(totalSize, maxSize)
    /\ gpc = "done" =>
          /\ gresult.settled
          /\ gresult.buffer # None =>
                /\ gresult.error = ""
                /\ gresult.buffer[1] \in StoredUnder(gcid)
                /\ Len(gresult.buffer[1]) <= maxSize
          /\ gresult.buffer = None => gresult.error # ""
          /\ gresult.error = GetFileError(TooLargeMessage(maxSize)) <=>
                totalSize > maxSize
          /\ totalSize > maxSize =>
                /\ Len(BufferConcat(chunks)) <= maxSize
                /\ \E b \in StoredUnder(gcid) : Len(b) - Len(stream[1]) = totalSize
          /\ (stream = Some(<<>>)
                /\ totalSize <= maxSize
                /\ gresult.error \notin {GetFileError(m) : m \in StreamErrors}) =>
                gresult.buffer # None

C15_Witness ==
    /\ gpc = "done"
    /\ maxSize = 2
    /\ gresult.error = GetFileError(TooLargeMessage(2))
    /\ Len(chunks) = 1
    /\ totalSize = 3
    /\ stream = Some(<<>>)

C15_WitnessReturned ==
    /\ gpc = "done"
    /\ maxSize = 2
    /\ gresult.buffer = Some(<<"a", "b">>)
    /\ Len(chunks) = 2

(***************************************************************************)
(* CredentialRegistry: who may issue, duplicate ids, revocation.           *)
(***************************************************************************)
\* how often an id occurs in one of the registry's id lists
Occurrences(list, id) == Cardinality({i \in DOMAIN list : list[i] = id})

\* the ids recorded by the step, if any
NewlyRecorded == {h \in VcIds : ~crCredentialExists[h] /\ crCredentialExists'[h]}

\* C16: issueCredential goes through only for a caller whose institution is
\* verified and active at that moment, so every credential recorded by a
\* step was issued by an address that was verified and active in that step.
C16_IssuerVerifiedAndActive ==
    /\ [](\A s \in CrAccounts, h \in VcIds \cup {ZeroHash},
             cid \in CrIpfsHashes \cup {""}, t \in CredentialTypes \cup {""},
             e \in CrExpiryInputs :
             CredentialRegistry_issueCredential_Revert(s, h, cid, t, e) = "" =>
                 crInstitutions[s].verified /\ crInstitutions[s].active)
    /\ [][\A h \in NewlyRecorded :
             /\ crInstitutions[crCredentials'[h].issuer].verified
             /\ crInstitutions[crCredentials'[h].issuer].active
             /\ crCredentials'[h].issuer \in crIssuerRole]_vars

\* C16 witness: a recorded credential whose issuer has since been
\* deactivated and verified again, holding the issuer role while inactive
C16_Witness ==
    \E h \in VcIds :
        /\ crCredentialExists[h]
        /\ crCredentials[h].issuer \in crIssuerRole
        /\ crInstitutions[crCredentials[h].issuer].verified
        /\ ~crInstitutions[crCredentials[h].issuer].active
        /\ ~crPaused

\* C17: issueCredential for an id already recorded reverts ("Credential
\* already exists" when the call is otherwise in order); no step changes
\* the issuer or the content reference of a recorded id, removes it, or
\* lists it again, and totalCredentials moves only by one, with a new id.
C17_DuplicateIdRejected ==
    /\ [](\A h \in VcIds : crCredentialExists[h] =>
             \A s \in CrAccounts, cid \in CrIpfsHashes \cup {""},
                t \in CredentialTypes \cup {""}, e \in CrExpiryInputs :
                LET r == CredentialRegistry_issueCredential_Revert(s, h, cid, t, e)
                IN /\ r # ""
                   /\ (s \in crIssuerRole /\ ~crPaused /\ cid # "" /\ t # "") =>
                         r = "Credential already exists")
    /\ [][/\ \A h \in VcIds : crCredentialExists[h] =>
                /\ crCredentialExists'[h]
                /\ crCredentials'[h].issuer = crCredentials[h].issuer
                /\ crCredentials'[h].ipfsHash = crCredentials[h].ipfsHash
                /\ \A a \in CrAccounts :
                      Occurrences(crIssuerCredentials'[a], h) =
                         Occurrences(crIssuerCredentials[a], h)
                /\ \A a \in Subjects :
                      Occurrences(crSubjectCredentials'[a], h) =
                         Occurrences(crSubjectCredentials[a], h)
          /\ totalCredentials' =
                totalCredentials + Cardinality(NewlyRecorded)
          /\ Cardinality(NewlyRecorded) <= 1]_vars

\* C17 witness: an id is recorded while its issuer could issue another one,
\* so that a second issueCredential for it fails on the duplicate alone
C17_Witness ==
    \E h \in VcIds :
        /\ crCredentialExists[h]
        /\ totalCredentials = 1
        /\ CredentialRegistry_issueCredential_Revert(
               crCredentials[h].issuer, h, "QmOther", "Diploma", 0) =
               "Credential already exists"
        /\ crCredentials[h].ipfsHash = "QmVC"

\* the ids whose revocation flag or reason the step changes
RevocationChanged ==
    {h \in VcIds : \/ crCredentials'[h].revoked # crCredentials[h].revoked
                   \/ crCredentials'[h].revokedReason # crCredentials[h].revokedReason}

\* C18: revokeCredential goes through only for a recorded, unrevoked
\* credential and its issuer; any other caller and any second revocation
\* revert; revoked, revokedReason and totalRevoked change only in a step
\* that revokes one unrevoked credential.
C18_RevokeOnlyOnceByIssuer ==
    /\ [](\A h \in VcIds, s \in CrAccounts, r \in CrReasons :
             LET e == CredentialRegistry_revokeCredential_Revert(s, h, r)
             IN /\ e = "" => /\ crCredentialExists[h]
                             /\ ~crCredentials[h].revoked
                             /\ crCredentials[h].issuer = s
                /\ (crCredentialExists[h] /\ ~crPaused /\ r # "") =>
                      /\ crCredentials[h].issuer # s => e = "Only issuer can revoke"
                      /\ (crCredentials[h].issuer = s /\ crCredentials[h].revoked) =>
                            e = "Credential already revoked")
    /\ [][/\ \A h \in RevocationChanged :
                /\ crCredentialExists[h]
                /\ ~crCredentials[h].revoked
                /\ crCredentials'[h].revoked
                /\ crCredentials'[h].revokedReason # ""
          /\ totalRevoked' = totalRevoked + Cardinality(RevocationChanged)
          /\ Cardinality(RevocationChanged) <= 1]_vars

\* C18 witness: a revoked credential, its issuer and another account both
\* being turned away when they try to revoke it again
C18_Witness ==
    \E h \in VcIds :
        /\ crCredentialExists[h]
        /\ crCredentials[h].revoked
        /\ crCredentials[h].revokedReason = "data entry error"
        /\ totalRevoked = 1
        /\ CredentialRegistry_revokeCredential_Revert(
               crCredentials[h].issuer, h, "issued in error") =
               "Credential already revoked"
        /\ CredentialRegistry_revokeCredential_Revert(Admin, h, "issued in error") =
               "Only issuer can revoke"

(***************************************************************************)
(* SpecContracts: the registry deployed at the configured address, which   *)
(* is a CredVerseRegistry or a CredentialRegistry, under every sequence of *)
(* calls to it.                                                            *)
(***************************************************************************)
CredVerseDeployed == deployedRegistry = "CredVerseRegistry"
CredentialRegistryDeployed == deployedRegistry = "CredentialRegistry"

NextContracts ==
    \/ CredVerseDeployed /\ CvRegister
    \/ CredVerseDeployed /\ CvVerify
    \/ CredVerseDeployed /\ CvIssue
    \/ CredVerseDeployed /\ CvRevoke
    \/ CredVerseDeployed /\ CvPause
    \/ CredVerseDeployed /\ CvUnpause
    \/ CredVerseDeployed /\ CvTick
    \/ CredentialRegistryDeployed /\ CrRegister
    \/ CredentialRegistryDeployed /\ CrVerify
    \/ CredentialRegistryDeployed /\ CrIssue
    \/ CredentialRegistryDeployed /\ CrRevoke
    \/ CredentialRegistryDeployed /\ CrPause
    \/ CredentialRegistryDeployed /\ CrUnpause
    \/ CredentialRegistryDeployed /\ CrDeactivate
    \/ CredentialRegistryDeployed /\ CrTick

InitContracts ==
    /\ CvInit
    /\ REGISTRY_ADDRESS = TRUE
    /\ deployedRegistry \in {"CredVerseRegistry", "CredentialRegistry"}
    /\ VerifyInit
    /\ CrInit
    /\ DocInit
    /\ PresInit
    /\ contractServiceState = "signer"
    /\ IssueInit
    /\ BatchInit
    /\ FileInit({TRUE})

SpecContracts == InitContracts /\ [][NextContracts]_vars

\* a CredVerseRegistry record keeps its identity across the step
CvRecordKept(id) ==
    /\ cvCredentialExists'[id]
    /\ cvCredentials'[id].issuer = cvCredentials[id].issuer
    /\ cvCredentials'[id].recipient = cvCredentials[id].recipient
    /\ cvCredentials'[id].ipfsHash = cvCredentials[id].ipfsHash
    /\ cvCredentials'[id].credentialType = cvCredentials[id].credentialType
    /\ cvCredentials'[id].issuedAt = cvCredentials[id].issuedAt
    /\ cvCredentials'[id].expiresAt = cvCredentials[id].expiresAt
    /\ cvCredentials[id].isRevoked =>
          /\ cvCredentials'[id].isRevoked
          /\ cvCredentials'[id].revokedReason = cvCredentials[id].revokedReason

\* a CredentialRegistry record keeps its identity across the step
CrRecordKept(h) ==
    /\ crCredentialExists'[h]
    /\ crCredentials'[h].issuer = crCredentials[h].issuer
    /\ crCredentials'[h].subject = crCredentials[h].subject
    /\ crCredentials'[h].ipfsHash = crCredentials[h].ipfsHash
    /\ crCredentials'[h].credentialType = crCredentials[h].credentialType
    /\ crCredentials'[h].issuedAt = crCredentials[h].issuedAt
    /\ crCredentials'[h].expiresAt = crCredentials[h].expiresAt
    /\ crCredentials[h].revoked =>
          /\ crCredentials'[h].revoked
          /\ crCredentials'[h].revokedReason = crCredentials[h].revokedReason

\* C19: once a credential is recorded, no call to either registry changes
\* its issuer, subject, content reference, type, issue time or expiry, or
\* removes it; only revoked, from false to true, and with it revokedReason,
\* ever change.
C19_RecordImmutable ==
    [][/\ \A id \in CredentialIds : cvCredentialExists[id] => CvRecordKept(id)
       /\ \A h \in VcIds : crCredentialExists[h] => CrRecordKept(h)]_vars

\* C19 witness: a CredentialRegistry record that has been revoked, has
\* passed its expiry and has seen its issuer deactivated
C19_Witness ==
    \E h \in VcIds :
        /\ deployedRegistry = "CredentialRegistry"
        /\ crCredentialExists[h]
        /\ crCredentials[h].revoked
        /\ crCredentials[h].expiresAt = 1
        /\ now = 2
        /\ ~crInstitutions[crCredentials[h].issuer].active

(***************************************************************************)
(* SpecEndToEnd: a credential is issued through POST /issue and, once the  *)
(* receipt says it is anchored, looked up through GET /api/verify/:id.     *)
(* Both services take the registry's address from the same environment     *)
(* variable; the contract there is the CredentialRegistry that             *)
(* contractService writes to. The institution is registered and verified   *)
(* before the request, and nothing else touches the registry. The verify   *)
(* handler never gets past its first read here, so its later steps are not *)
(* part of Next.                                                           *)
(***************************************************************************)
EndRegister ==
    /\ ipc = "idle"
    /\ CrRegister

EndVerifyInstitution ==
    /\ ipc = "idle"
    /\ CrVerify

\* the client verifies the id of the receipt it has just received
EndVerifyRequest ==
    /\ IssueDone
    /\ iresponse.blockchain # None
    /\ \E q \in QueryValues : VerifyBegin(iresponse.credentialId[1], q)
    /\ UNCHANGED <<crVars, docVars, presVars, issueVars, batchVars, fileVars>>

NextEndToEnd ==
    \/ EndRegister
    \/ EndVerifyInstitution
    \/ IssueRequest
    \/ IssueDid
    \/ IssueMetadataUpload
    \/ IssueVc
    \/ IssueVcUpload
    \/ IssueChain
    \/ EndVerifyRequest
    \/ VerifyRead1

InitEndToEnd ==
    /\ CvInit
    /\ REGISTRY_ADDRESS \in BOOLEAN
    /\ deployedRegistry = "CredentialRegistry"
    /\ VerifyInit
    /\ CrInit
    /\ DocInit
    /\ PresInit
    /\ contractServiceState = "signer"
    /\ IssueInit
    /\ BatchInit
    /\ FileInit({TRUE})

SpecEndToEnd == InitEndToEnd /\ [][NextEndToEnd]_vars

\* C20 as stated: when the receipt of an issue without expiration date
\* carries a non-null blockchain field, the verification of its
\* credentialId made right afterwards finds the credential and answers
\* overallValid = true, isExpired = false, isRevoked = false.
C20_AnchoredThenVerifies ==
    (/\ IssueDone
     /\ iresponse.blockchain # None
     /\ Falsy(ireq.expirationDate)
     /\ VerifyDone
     /\ vreq.credentialId = iresponse.credentialId[1]) =>
        /\ vresponse.status = 200
        /\ vresponse.overallValid = Some(TRUE)
        /\ verificationResult.blockchain.verified
        /\ ~verificationResult.isExpired
        /\ ~verificationResult.isRevoked

(***************************************************************************)
(* GET /api/verify/:credentialId: the unconfigured registry, the content   *)
(* fetch, and the two chain reads.                                         *)
(***************************************************************************)
\* C21 as stated: with no registry address configured, the verification
\* answers 503 and never a success envelope carrying a verdict.
C21_UnconfiguredIsUnavailable ==
    (VerifyDone /\ ~REGISTRY_ADDRESS) =>
        /\ vresponse.status = 503
        /\ ~vresponse.success
        /\ vresponse.overallValid = None

C28_VerdictFromOneState ==
    (VerdictReturned /\ verificationResult.blockchain.verified) =>
        /\ vhist.firstRead # None
        /\ LET t == vhist.firstRead[1].tuple
               c == vhist.firstRead[1].record
               vr == verificationResult
           IN /\ vr.isValid = t.isValid
              /\ vr.isExpired = t.isExpired
              /\ vr.isRevoked = t.isRevoked
              /\ vr.isRevoked = c.isRevoked
              /\ vr.issuer = c.issuer
              /\ vr.recipient = c.recipient
              /\ vr.credentialType = c.credentialType
              /\ vr.issuedAt # None => vr.issuedAt = Some(ToISOString(c.issuedAt))
              /\ vr.expiresAt # None =>
                    vr.expiresAt = Some(ToISOString(c.expiresAt))
              /\ vhist.conversion = "ok" =>
                    /\ vr.issuedAt # None
                    /\ vr.expiresAt = None <=> c.expiresAt = 0
              /\ credential # None /\ credential[1].ipfsHash = c.ipfsHash

\* C28 witness: the credential was revoked after the first read and before
\* the second, and the verdict, complete with the fetched metadata, still
\* reports it unrevoked
C28_Witness ==
    /\ VerdictReturned
    /\ verificationResult.blockchain.verified
    /\ vhist.conversion = "ok"
    /\ verificationResult.ipfs.verified
    /\ ~verificationResult.isRevoked
    /\ credential # None
    /\ credential[1].isRevoked

(***************************************************************************)
(* POST /api/verify/credential: revoked and expired records.               *)
(***************************************************************************)
\* C27 as stated: the document handler never answers overallValid = true
\* for a document whose id the registry holds as revoked or as expired at
\* the time of the lookup.
C27_RevokedOrExpiredNeverValid ==
    (DocDone /\ dresponse.status = 200 /\ dhist.lookup = "ok"
        /\ (dhist.revokedAtRead \/ dhist.expiredAtRead)) =>
        dresponse.overallValid # Some(TRUE)

(***************************************************************************)
(* CredentialRegistry: statistics, pause, deactivation.                    *)
(***************************************************************************)
Recorded == {h \in VcIds : crCredentialExists[h]}
Registered == {a \in CrAccounts : crInstitutions[a].name # ""}

\* C23: totalCredentials is the number of recorded ids, totalRevoked the
\* number of recorded credentials that are revoked, totalInstitutions the
\* number of registered institutions; none of the three ever decreases.
\* (All three are 0 in the initial state, where nothing is recorded.)
C23_StatisticsCount ==
    /\ [](/\ totalCredentials = Cardinality(Recorded)
          /\ totalRevoked = Cardinality({h \in Recorded : crCredentials[h].revoked})
          /\ totalRevoked <= totalCredentials
          /\ totalInstitutions = Cardinality(Registered))
    /\ [][/\ totalCredentials' >= totalCredentials
          /\ totalRevoked' >= totalRevoked
          /\ totalInstitutions' >= totalInstitutions]_vars

C23_Witness ==
    /\ totalCredentials = 2
    /\ totalRevoked = 1
    /\ totalInstitutions = 1

\* every requirement of issueCredential other than the pause
IssueInOrderButForPause(s, h, cid, t, e) ==
    /\ s \in crIssuerRole
    /\ crInstitutions[s].verified
    /\ crInstitutions[s].active
    /\ h # ZeroHash
    /\ ~crCredentialExists[h]
    /\ cid # ""
    /\ t # ""
    /\ (e = 0 \/ e > now)

\* C24: while the registry is paused every issueCredential and every
\* revokeCredential reverts and no step changes a credential, while
\* registerInstitution and verifyInstitution go through; the step that
\* unpauses lets an issueCredential held back by the pause alone go through;
\* only the admin can pause or unpause.
C24_PauseBlocksCredentialWrites ==
    /\ [](crPaused =>
            /\ \A s \in CrAccounts, h \in VcIds \cup {ZeroHash},
                  cid \in CrIpfsHashes \cup {""}, t \in CredentialTypes \cup {""},
                  e \in CrExpiryInputs :
                  /\ CredentialRegistry_issueCredential_Revert(s, h, cid, t, e) # ""
                  /\ IssueInOrderButForPause(s, h, cid, t, e) =>
                        CredentialRegistry_issueCredential_Revert(s, h, cid, t, e) =
                            "Pausable: paused"
            /\ \A s \in CrAccounts, h \in VcIds, r \in CrReasons :
                  CredentialRegistry_revokeCredential_Revert(s, h, r) # ""
            /\ \A a \in CrInstitutionAccounts :
                  IF a \in Registered THEN ENABLED CrVerify ELSE ENABLED CrRegister)
    /\ [](\A s \in CrAccounts \ {Admin} :
            /\ ~ENABLED (CredentialRegistry_pause(s) /\ CrFrame)
            /\ ~ENABLED (CredentialRegistry_unpause(s) /\ CrFrame))
    /\ [][/\ crPaused =>
                /\ crCredentials' = crCredentials
                /\ crCredentialExists' = crCredentialExists
                /\ totalCredentials' = totalCredentials
                /\ totalRevoked' = totalRevoked
          /\ (crPaused /\ ~crPaused') =>
                \A s \in CrAccounts, h \in VcIds, cid \in CrIpfsHashes,
                   t \in CredentialTypes, e \in CrExpiryInputs :
                   IssueInOrderButForPause(s, h, cid, t, e) =>
                      (CredentialRegistry_issueCredential_Revert(s, h, cid, t, e) = "")'
         ]_vars

\* C24 witness: the registry is paused while a verified, active institution
\* holds an unrevoked credential and could issue another
C24_Witness ==
    /\ crPaused
    /\ \E h \in VcIds :
          /\ crCredentialExists[h]
          /\ ~crCredentials[h].revoked
          /\ crInstitutions[crCredentials[h].issuer].active
    /\ \E s \in CrAccounts, h \in VcIds :
          IssueInOrderButForPause(s, h, "QmVC", "Diploma", 0)

\* the step deactivates institution a
Deactivates(a) ==
    /\ crInstitutions'[a].name # ""
    /\ ~crInstitutions'[a].active
    /\ crInstitutions'[a].verified = crInstitutions[a].verified
    /\ crInstitutions[a].active \/ (a \in crIssuerRole /\ a \notin crIssuerRole')

\* C25: the step that deactivates a registered institution leaves it
\* inactive and without the issuer role, every credential it issued is
\* reported isValid = false from then on, and the stored credentials and
\* their revocation flags are as they were.
C25_DeactivationInvalidates ==
    /\ [](\A h \in Recorded :
            ~crInstitutions[crCredentials[h].issuer].active =>
                /\ CredentialRegistry_isValid(h).ok
                /\ ~CredentialRegistry_isValid(h).value[1].isValid)
    /\ [][\A a \in CrAccounts : Deactivates(a) =>
             /\ a \notin crIssuerRole'
             /\ crCredentials' = crCredentials
             /\ crCredentialExists' = crCredentialExists
             /\ crIssuerCredentials' = crIssuerCredentials
             /\ totalCredentials' = totalCredentials
             /\ totalRevoked' = totalRevoked]_vars

\* C25 witness: an institution has been deactivated, by that step alone,
\* while it held a credential that was valid until then
C25_Witness ==
    \E h \in VcIds :
        /\ crCredentialExists[h]
        /\ ~crCredentials[h].revoked
        /\ crCredentials[h].expiresAt = 0
        /\ crInstitutions[crCredentials[h].issuer].verified
        /\ ~crInstitutions[crCredentials[h].issuer].active
        /\ crCredentials[h].issuer \notin crIssuerRole
        /\ ~CredentialRegistry_isValid(h).value[1].isValid

\* C30: a deactivated institution never issues again: it stays inactive
\* through every later step, cannot register a second time, and every
\* issueCredential it sends reverts, also once verifyInstitution has given
\* it the issuer role back.
C30_DeactivationPermanent ==
    /\ [](\A a \in Registered :
            /\ \A n \in {"Sample University"}, d \in {"did:ethr:inst"} :
                  ~ENABLED (CredentialRegistry_registerInstitution(a, n, d) /\ CrFrame)
            /\ ~crInstitutions[a].active =>
                  \A h \in VcIds \cup {ZeroHash}, cid \in CrIpfsHashes \cup {""},
                     t \in CredentialTypes \cup {""}, e \in CrExpiryInputs :
                     CredentialRegistry_issueCredential_Revert(a, h, cid, t, e) # "")
    /\ [][\A a \in Registered :
             /\ ~crInstitutions[a].active => ~crInstitutions'[a].active
             /\ ~crInstitutions[a].active =>
                   \A h \in NewlyRecorded : crCredentials'[h].issuer # a]_vars

\* C30 witness: a deactivated institution that was verified again afterwards
\* and holds the issuer role on an unpaused registry, with no credential
C30_Witness ==
    \E a \in Registered :
        /\ ~crInstitutions[a].active
        /\ crInstitutions[a].verified
        /\ a \in crIssuerRole
        /\ ~crPaused
        /\ totalCredentials = 0

(***************************************************************************)
(* IPFSService.fileExists.                                                 *)
(***************************************************************************)
\* the store held the cid when fileExists was called and the transfer did
\* not fail
Retrievable ==
    /\ stream # None
    /\ gresult.error \notin {GetFileError(m) : m \in StreamErrors}

\* C26 as stated: fileExists answers true for every cid whose content can
\* be retrieved, whatever its size, and false only when it cannot.
C26_ExistsIffRetrievable ==
    fileExistsResult \in {"true", "false"} =>
        (fileExistsResult = "true" <=> Retrievable)

(***************************************************************************)
(* POST /issue: the QR payload.                                            *)
(***************************************************************************)
\* C29 as stated: when a credential is issued and registered on-chain, the
\* ipfsHash of the QR payload is the content id recorded on-chain for it,
\* which is the vcCid of the receipt.
C29_QrCarriesAnchoredCid ==
    (IssueDone /\ iresponse.status = 201 /\ iresponse.blockchain # None) =>
        /\ iresponse.qrIpfsHash = iresponse.vcCid
        /\ iresponse.qrIpfsHash =
               Some(crCredentials[hashCredentialId(iresponse.credentialId[1])].ipfsHash)
=============================================================================
